---- MODULE Spec2Model ----
(***************************************************************************)
(* A model of the Solarman/Deye integration core: the V5 frame codec and   *)
(* the passive server of server.py, and the coordinator of coordinator.py  *)
(* (pushed-register slot, polling with retries, identification read,       *)
(* register decoding).                                                     *)
(*                                                                         *)
(* Granularity.  The server's connection handlers and the coordinator's    *)
(* refresh run on one asyncio event loop: a handler step is the code       *)
(* between two awaits.  _read_registers and _read_device_info run in an    *)
(* executor thread: a step of theirs is the code up to and including one   *)
(* blocking call (connect, read, sleep).                                   *)
(***************************************************************************)
EXTENDS Integers, Sequences, FiniteSets, TLC

\* ------------------------------------------------------------------------
\* Bounds of the model
\* ------------------------------------------------------------------------
MaxConns == 2
\* reads of the server alone; reads and refreshes of the coordinator with
\* the server; refreshes of the coordinator alone
MaxReads == 2
MaxPushReads == 2
MaxCycles == 2
MaxPollCycles == 2

\* ------------------------------------------------------------------------
\* server.py: constants
\* ------------------------------------------------------------------------
V5_START == 165
V5_END == 21
FRAME_HEARTBEAT == 71
FRAME_DATA == 66
FRAME_HELLO == 65
MIN_FRAME_SIZE == 14
HEADER_SIZE == 12

\* ------------------------------------------------------------------------
\* Byte strings.  A Python bytes object is a sequence of 0..255; Python
\* offsets are 0-based, so byte i of b is b[i + 1].
\* ------------------------------------------------------------------------
At(b, i) == b[i + 1]

\* b[lo:hi] for 0 <= lo, with Python's clamping of hi and empty result
\* when hi <= lo.
Slice(b, lo, hi) ==
    LET h == IF hi > Len(b) THEN Len(b) ELSE hi
    IN  IF h <= lo THEN << >> ELSE [k \in 1..(h - lo) |-> b[lo + k]]

RECURSIVE SumBytes(_, _)
SumBytes(b, n) == IF n = 0 THEN 0 ELSE b[n] + SumBytes(b, n - 1)

\* sum(b) & 0xFF
Checksum(b) == SumBytes(b, Len(b)) % 256

\* An unsigned 32-bit value (a logger serial) is held as the pair
\* << high 16 bits, low 16 bits >>: value = high * 65536 + low.  TLC's
\* integers are 32-bit signed and cannot hold 2^31..2^32-1.
U32(hi, lo) == << hi, lo >>

\* struct.pack("<H", n), struct.pack("<I", u)
PackLE16(n) == << n % 256, (n \div 256) % 256 >>
PackLE32(u) == PackLE16(u[2]) \o PackLE16(u[1])

\* A 32-bit read in network byte order.
UnpackBE32(b, off) ==
    U32(256 * At(b, off) + At(b, off + 1), 256 * At(b, off + 2) + At(b, off + 3))

\* struct.unpack_from("<H", b, off)[0], struct.unpack_from("<I", b, off)[0]
UnpackLE16(b, off) == At(b, off) + 256 * At(b, off + 1)
UnpackLE32(b, off) == U32(UnpackLE16(b, off + 2), UnpackLE16(b, off))

\* data.find(V5_START, pos): the first offset >= pos holding the start
\* byte, -1 when there is none.
RECURSIVE Find(_, _)
Find(data, pos) ==
    IF pos >= Len(data) THEN -1
    ELSE IF At(data, pos) = V5_START THEN pos
    ELSE Find(data, pos + 1)

\* ------------------------------------------------------------------------
\* _parse_v5_frames.  The result is [frames, err]: err is TRUE when the
\* function raises (struct.error or IndexError on a frame too short to
\* hold the header fields), in which case the caller gets no list at all.
\* ------------------------------------------------------------------------
RECURSIVE ParseFrom(_, _, _)
ParseFrom(data, pos, frames) ==
    IF pos >= Len(data) THEN [frames |-> frames, err |-> FALSE]
    ELSE
    LET start == Find(data, pos) IN
    IF start = -1 \/ start + MIN_FRAME_SIZE > Len(data)
    THEN [frames |-> frames, err |-> FALSE]
    ELSE
    LET length == UnpackLE16(data, start + 1)
        frame_size == 1 + 2 + length + 1 + 1
    IN
    IF start + frame_size > Len(data)
    THEN [frames |-> frames, err |-> FALSE]
    ELSE
    LET frame == Slice(data, start, start + frame_size) IN
    IF frame[Len(frame)] # V5_END
    THEN ParseFrom(data, start + 1, frames)
    ELSE IF frame[Len(frame) - 1] # Checksum(Slice(frame, 0, Len(frame) - 2))
    THEN ParseFrom(data, start + 1, frames)
    ELSE IF Len(frame) < 12
    THEN [frames |-> << >>, err |-> TRUE]
    ELSE
    LET serial == UnpackLE32(frame, 7)
        frame_type == At(frame, 11)
        payload == Slice(frame, HEADER_SIZE, Len(frame) - 2)
    IN  ParseFrom(data, start + frame_size,
                  Append(frames, [type |-> frame_type, serial |-> serial,
                                  payload |-> payload]))

_parse_v5_frames(data) == ParseFrom(data, 0, << >>)

\* ------------------------------------------------------------------------
\* Register maps: a Python dict {address: value} is a function whose
\* domain is the set of addresses present.  EmptyRegs is {}.
\* ------------------------------------------------------------------------
EmptyRegs == [a \in {} |-> 0]

\* struct.unpack(">nH", b[:n*2])
UnpackBE16s(b, n) == [k \in 1..n |-> 256 * b[2 * k - 1] + b[2 * k]]

\* An assignment whose enumeration counts from one.
AssignBlockFromOne(regs, start, values) ==
    [a \in DOMAIN regs \cup {start + k : k \in 1..Len(values)} |->
        IF a - start \in 1..Len(values) THEN values[a - start] ELSE regs[a]]

\* for i, val in enumerate(values): regs[start + i] = val
AssignBlock(regs, start, values) ==
    [a \in DOMAIN regs \cup {start + k - 1 : k \in 1..Len(values)} |->
        IF a - start + 1 \in 1..Len(values) THEN values[a - start + 1]
        ELSE regs[a]]

\* _try_raw_register_parse
_try_raw_register_parse(data) ==
    IF Len(data) < 4 THEN EmptyRegs
    ELSE LET num_regs == Len(data) \div 2
             values == UnpackBE16s(Slice(data, 0, num_regs * 2), num_regs)
         IN  AssignBlock(EmptyRegs, 0, values)

\* An inference that takes every block of fewer than 50 values for the
\* second block of the read plan.
StartRegForLargeOnly(num_regs) == IF num_regs >= 50 THEN 59 ELSE 150

\* The start register inferred from the number of values.
StartRegFor(num_regs) ==
    IF num_regs >= 90 THEN 59
    ELSE IF num_regs >= 50 THEN 59
    ELSE IF num_regs >= 40 THEN 150
    ELSE 59

\* _extract_registers_from_payload
_extract_registers_from_payload(payload) ==
    IF Len(payload) < 16 THEN EmptyRegs
    ELSE
    LET modbus == Slice(payload, 15, Len(payload)) IN
    IF Len(modbus) < 5 THEN EmptyRegs
    ELSE
    LET function == At(modbus, 1)
        byte_count == At(modbus, 2)
    IN
    IF function \notin {3, 4} THEN _try_raw_register_parse(modbus)
    ELSE
    LET data_bytes == Slice(modbus, 3, 3 + byte_count) IN
    IF Len(data_bytes) < byte_count THEN EmptyRegs
    ELSE
    LET num_regs == byte_count \div 2
        values == UnpackBE16s(Slice(data_bytes, 0, num_regs * 2), num_regs)
    IN  AssignBlock(EmptyRegs, StartRegFor(num_regs), values)

\* An acknowledgement whose checksum leaves the start byte out of the sum.
_build_v5_ack_sum_from_length(frame_type, serial, sequence) ==
    LET payload == << V5_START >> \o PackLE16(11) \o PackLE16(4112)
                   \o PackLE16(sequence) \o PackLE32(serial)
                   \o << frame_type >> \o << 1 >> \o << 0 >>
        cs == (Checksum(payload) + 256 - V5_START) % 256
    IN  payload \o << cs >> \o << V5_END >>

\* _build_v5_ack
_build_v5_ack(frame_type, serial, sequence) ==
    LET payload == << V5_START >> \o PackLE16(11) \o PackLE16(4112)
                   \o PackLE16(sequence) \o PackLE32(serial)
                   \o << frame_type >> \o << 1 >> \o << 0 >>
        cs == Checksum(payload)
    IN  payload \o << cs >> \o << V5_END >>

\* ------------------------------------------------------------------------
\* What a logger sends.  A well-formed frame follows the layout the parser
\* reads back: start, length = 9 + payload size (LE16), control (LE16),
\* sequence (LE16), serial (LE32), type, payload, checksum, end.
\* ------------------------------------------------------------------------
LoggerFrame(control, sequence, serial, frame_type, payload) ==
    LET head == << V5_START >> \o PackLE16(9 + Len(payload))
                \o PackLE16(control) \o PackLE16(sequence)
                \o PackLE32(serial) \o << frame_type >> \o payload
    IN  head \o << Checksum(head) >> \o << V5_END >>

\* struct.pack(">nH", *values)
PackBE16s(values) ==
    [k \in 1..(2 * Len(values)) |->
        IF k % 2 = 1 THEN values[(k + 1) \div 2] \div 256
        ELSE values[k \div 2] % 256]

\* The payload of a data report: status(1) + sensor_type(2) + three
\* times(12), then slave(1) + function(1) + byte_count(1) + data.
DataPayload(function, values) ==
    << 1, 2, 0 >> \o [k \in 1..12 |-> 0]
    \o << 1, function, 2 * Len(values) >> \o PackBE16s(values)

\* The serial the server is configured with, and another logger's.
Serial == U32(48350, 23070)        \* 3168688670
OtherSerial == U32(38211, 25273)   \* 2504221369

FrameA == LoggerFrame(16912, 1, Serial, FRAME_DATA, DataPayload(4, << 2, 35 >>))
FrameB == LoggerFrame(16912, 2, Serial, FRAME_DATA,
                     DataPayload(3, << 3, 36, 7 >>))
FrameOther == LoggerFrame(16912, 7, OtherSerial, FRAME_DATA,
                          DataPayload(4, << 4, 37 >>))
FrameHeartbeat == LoggerFrame(18192, 3, Serial, FRAME_HEARTBEAT, << 0 >>)
FrameHello == LoggerFrame(16656, 4, Serial, FRAME_HELLO, << 0 >>)
FrameUnknown == LoggerFrame(18448, 5, Serial, 72, << 0 >>)

\* FrameA with its checksum byte changed.
FrameBadChecksum ==
    [FrameA EXCEPT ![Len(FrameA) - 1] = (FrameA[Len(FrameA) - 1] + 1) % 256]
\* FrameA with its end marker changed.
FrameBadEnd == [FrameA EXCEPT ![Len(FrameA)] = 0]
\* A candidate whose length field is 0, with a matching checksum and end
\* marker, followed by enough bytes to reach the minimum frame size.
FrameShort == << V5_START, 0, 0, V5_START, V5_END >> \o [k \in 1..9 |-> 0]

SplitAt == 20

\* The byte strings one read of a connection may return.
Chunks == <<
    FrameA,
    FrameB,
    FrameOther,
    FrameHeartbeat \o FrameB,
    FrameHello \o FrameUnknown,
    Slice(FrameA, 0, SplitAt),
    Slice(FrameA, SplitAt, Len(FrameA)),
    FrameBadChecksum \o FrameB,
    FrameBadEnd,
    FrameShort
>>
ChunkIds == 1..Len(Chunks)
\* The reads made of well-formed frames of the configured logger.
PushChunkIds == {1, 2, 4}

\* ------------------------------------------------------------------------
\* const.py: register tables.  An entry (register, name, unit, device
\* class, state class, scale, precision, signed) keeps register, name,
\* scale, precision and signed; a scale of 1, 0.1 or 0.01 is held as its
\* number of decimal digits (0, 1, 2).  named = FALSE is a name of None.
\* ------------------------------------------------------------------------
Reg(reg, name, scaleDigits, precision, signed) ==
    [reg |-> reg, name |-> name, named |-> TRUE, scale |-> scaleDigits,
     precision |-> precision, signed |-> signed]
RegPlaceholder(reg) ==
    [reg |-> reg, name |-> "", named |-> FALSE, scale |-> 0,
     precision |-> 0, signed |-> FALSE]

REGISTERS_PV == <<
    Reg(109, "PV1 Voltage", 1, 1, FALSE),
    Reg(110, "PV1 Current", 1, 1, FALSE),
    Reg(186, "PV1 Power", 0, 0, FALSE),
    Reg(111, "PV2 Voltage", 1, 1, FALSE),
    Reg(112, "PV2 Current", 1, 1, FALSE),
    Reg(187, "PV2 Power", 0, 0, FALSE) >>

REGISTERS_BATTERY == <<
    Reg(184, "Battery SOC", 0, 0, FALSE),
    Reg(183, "Battery Voltage", 2, 2, FALSE),
    RegPlaceholder(184),
    Reg(190, "Battery Current", 2, 2, TRUE),
    Reg(191, "Battery Power", 0, 0, TRUE),
    Reg(182, "Battery Temperature", 1, 1, FALSE) >>

REGISTERS_GRID == <<
    Reg(150, "Grid Voltage", 1, 1, FALSE),
    Reg(160, "Grid Current", 2, 2, TRUE),
    Reg(169, "Grid Power", 0, 0, TRUE),
    Reg(79, "Grid Frequency", 2, 2, FALSE),
    Reg(172, "Grid CT Power", 0, 0, TRUE) >>

REGISTERS_LOAD == <<
    Reg(178, "Load Power", 0, 0, FALSE),
    Reg(192, "Load Frequency", 2, 2, FALSE) >>

REGISTERS_INVERTER == <<
    Reg(175, "Inverter Power", 0, 0, TRUE),
    Reg(154, "Inverter Voltage", 1, 1, FALSE),
    Reg(164, "Inverter Current", 2, 2, FALSE),
    Reg(193, "Inverter Frequency", 2, 2, FALSE) >>

REGISTERS_TEMPERATURE == <<
    Reg(90, "DC Transformer Temperature", 1, 1, TRUE),
    Reg(91, "Radiator Temperature", 1, 1, TRUE),
    Reg(95, "Ambient Temperature", 1, 1, TRUE) >>

REGISTERS_ENERGY_DAILY == <<
    Reg(108, "Daily PV Energy", 1, 1, FALSE),
    Reg(70, "Daily Battery Charge Energy", 1, 1, FALSE),
    Reg(71, "Daily Battery Discharge Energy", 1, 1, FALSE),
    Reg(76, "Daily Grid Import Energy", 1, 1, FALSE),
    Reg(77, "Daily Grid Export Energy", 1, 1, FALSE),
    Reg(84, "Daily Load Energy", 1, 1, FALSE) >>

\* (low_register, high_register, name, ..., scale, precision)
Reg32(low, high, name, scaleDigits, precision) ==
    [low |-> low, high |-> high, name |-> name, scale |-> scaleDigits,
     precision |-> precision]

REGISTERS_ENERGY_TOTAL == <<
    Reg32(96, 97, "Total PV Energy", 1, 1),
    Reg32(72, 73, "Total Battery Charge Energy", 1, 1),
    Reg32(74, 75, "Total Battery Discharge Energy", 1, 1),
    Reg32(78, 79, "Total Grid Import Energy", 1, 1),
    Reg32(81, 82, "Total Grid Export Energy", 1, 1),
    Reg32(85, 86, "Total Load Energy", 1, 1) >>

REGISTERS_STATUS == <<
    Reg(59, "Running State", 0, 0, FALSE),
    Reg(194, "Grid Connected Status", 0, 0, FALSE),
    Reg(60, "Daily Active Energy", 1, 1, FALSE) >>

RUNNING_STATES ==
    0 :> "Standby" @@ 1 :> "Self-check" @@ 2 :> "Normal" @@ 3 :> "Alarm"
    @@ 4 :> "Fault"

READ_BLOCKS == << << 59, 55 >>, << 150, 45 >> >>
DEVICE_INFO_BLOCK == << 0, 16 >>

DEVICE_TYPES ==
    2 :> "String Inverter" @@ 3 :> "Single-Phase Hybrid"
    @@ 4 :> "Micro Inverter" @@ 5 :> "Three-Phase Hybrid"

\* Calibration defaults: 0.256 kg/kWh in thousandths, 5.12 kWh in
\* hundredths, 6000 rated cycles.
DEFAULT_CO2_FACTOR == 256
DEFAULT_BATTERY_CAPACITY == 512
DEFAULT_BATTERY_RATED_CYCLES == 6000

\* ------------------------------------------------------------------------
\* Snapshot values.  A number is a decimal m / 10^p (what round(x, p)
\* returns, up to the float nearest to it); a text is a string.  The
\* number made from a 32-bit total has a mantissa that TLC's integers
\* cannot hold: it is the pair u = U32(high, low), of value
\* high * 65536 + low, negated when neg.
\* ------------------------------------------------------------------------
Num(m, p) == [kind |-> "num", m |-> m, p |-> p, text |-> ""]
Num32(neg, u, p) == [kind |-> "num32", m |-> u, neg |-> neg, p |-> p, text |-> ""]
Text(t) == [kind |-> "text", m |-> 0, p |-> 0, text |-> t]

EmptySnapshot == [k \in {} |-> Num(0, 0)]

\* data[name] = value
Put(d, name, value) ==
    [k \in DOMAIN d \cup {name} |-> IF k = name THEN value ELSE d[k]]

RECURSIVE Pow10(_)
Pow10(n) == IF n = 0 THEN 1 ELSE 10 * Pow10(n - 1)

RECURSIVE GCD(_, _)
GCD(a, b) == IF b = 0 THEN a ELSE GCD(b, a % b)

\* n / d rounded to the nearest integer, ties to even (d > 0).
RoundHalfEven(n, d) ==
    LET q == n \div d
        r == n - q * d
    IN  IF 2 * r < d THEN q
        ELSE IF 2 * r > d THEN q + 1
        ELSE IF q % 2 = 0 THEN q ELSE q + 1

\* (a * x) / d rounded likewise (a > 0, d > 0), with the fraction a / d
\* reduced first so that the product stays within TLC's integers.
RoundProduct(a, x, d) ==
    LET g == GCD(a, d) IN RoundHalfEven((a \div g) * x, d \div g)

\* (a * u) / d rounded likewise, for u = U32(high, low): the long division
\* of a * (high * 65536 + low) by d, one 16-bit word at a time (a > 0,
\* d > 0, and a + d < 32768 once reduced).
RoundProduct32(a, u, d) ==
    LET g == GCD(a, d)
        a1 == a \div g
        d1 == d \div g
        t == a1 * u[1]
        n2 == (t % d1) * 65536 + a1 * u[2]
    IN  (t \div d1) * 65536 + RoundHalfEven(n2, d1)

\* round(v * 10^-digits, precision) as a mantissa of `precision` digits.
RoundScaled(v, digits, precision) ==
    IF precision >= digits THEN v * Pow10(precision - digits)
    ELSE RoundHalfEven(v, Pow10(digits - precision))

\* A conversion whose comparison leaves 32768 out of the negative half.
_signed_above(value) == IF value > 32768 THEN value - 65536 ELSE value

\* _signed
_signed(value) == IF value >= 32768 THEN value - 65536 ELSE value

\* The assignments data[name] = ... of one loop over a table, applied to
\* d: hit is the set of table indices whose entry is not skipped, and a
\* name assigned more than once keeps the value of its last entry.
LoopOver(d, tab, hit, Val(_)) ==
    LET names == {tab[i].name : i \in hit}
        last(name) == CHOOSE i \in hit :
                          /\ tab[i].name = name
                          /\ \A j \in hit : tab[j].name = name => j <= i
    IN  [k \in DOMAIN d \cup names |->
            IF k \in names THEN Val(tab[last(k)]) ELSE d[k]]

\* The groups of the first loop, in its order.
SingleGroups ==
    REGISTERS_PV \o REGISTERS_GRID \o REGISTERS_LOAD \o REGISTERS_INVERTER
    \o REGISTERS_TEMPERATURE \o REGISTERS_ENERGY_DAILY \o REGISTERS_STATUS

\* val = self._signed(raw) if signed else raw; round(val * scale, precision)
SingleValue(e, regs) ==
    LET raw == regs[e.reg]
        val == IF e.signed THEN _signed(raw) ELSE raw
    IN  Num(RoundScaled(val, e.scale, e.precision), e.precision)

\* The loop over the 16-bit single-register sensors.
ParseSingles(regs, d) ==
    LET hit == {i \in 1..Len(SingleGroups) :
                   SingleGroups[i].named /\ SingleGroups[i].reg \in DOMAIN regs}
        Val(e) == SingleValue(e, regs)
    IN  LoopOver(d, SingleGroups, hit, Val)

\* The loop over REGISTERS_BATTERY, with the offset temperature.
ParseBattery(regs, d) ==
    LET hit == {i \in 1..Len(REGISTERS_BATTERY) :
                   /\ REGISTERS_BATTERY[i].named
                   /\ REGISTERS_BATTERY[i].reg \in DOMAIN regs}
        Val(e) == IF e.name = "Battery Temperature"
                  THEN Num(RoundScaled(regs[e.reg] - 1000, 1, 1), 1)
                  ELSE SingleValue(e, regs)
    IN  LoopOver(d, REGISTERS_BATTERY, hit, Val)

\* A combination that goes through _signed32: from 2^31 on the value is
\* value - 2^32, a negative number of magnitude 2^32 - value.
CombinedSigned(high_val, low_val) ==
    IF high_val < 32768 THEN [neg |-> FALSE, u |-> U32(high_val, low_val)]
    ELSE [neg |-> TRUE,
          u |-> IF low_val = 0 THEN U32(65536 - high_val, 0)
                ELSE U32(65535 - high_val, 65536 - low_val)]

\* combined = (high_val << 16) | low_val, for two 16-bit words
Combined(high_val, low_val) == [neg |-> FALSE, u |-> U32(high_val, low_val)]

\* round(combined * scale, precision): every entry of the table has scale
\* 0.1 and precision 1, so the mantissa, in tenths, is combined itself.
TotalValue(e, regs) ==
    LET c == Combined(regs[e.high], regs[e.low])
    IN  Num32(c.neg, c.u, e.precision)

\* A loop over the totals that takes a missing high word for 0.
ParseTotalsLowOnly(regs, d) ==
    LET hit == {i \in 1..Len(REGISTERS_ENERGY_TOTAL) :
                   REGISTERS_ENERGY_TOTAL[i].low \in DOMAIN regs}
        Val(e) == LET hi == IF e.high \in DOMAIN regs THEN regs[e.high] ELSE 0
                  IN  Num32(FALSE, U32(hi, regs[e.low]), e.precision)
    IN  LoopOver(d, REGISTERS_ENERGY_TOTAL, hit, Val)

\* The loop over REGISTERS_ENERGY_TOTAL.
ParseTotals(regs, d) ==
    LET hit == {i \in 1..Len(REGISTERS_ENERGY_TOTAL) :
                   /\ REGISTERS_ENERGY_TOTAL[i].low \in DOMAIN regs
                   /\ REGISTERS_ENERGY_TOTAL[i].high \in DOMAIN regs}
        Val(e) == TotalValue(e, regs)
    IN  LoopOver(d, REGISTERS_ENERGY_TOTAL, hit, Val)

\* int(x) of a snapshot number: truncation towards zero.
IntOf(v) ==
    LET den == Pow10(v.p)
    IN  IF v.m >= 0 THEN v.m \div den ELSE -((-v.m) \div den)

\* A translation that leaves a state outside RUNNING_STATES as the number
\* it was decoded to.
TranslateKnownRunningState(d) ==
    IF "Running State" \notin DOMAIN d THEN d
    ELSE LET raw_state == IntOf(d["Running State"])
         IN  IF raw_state \in DOMAIN RUNNING_STATES
             THEN Put(d, "Running State", Text(RUNNING_STATES[raw_state]))
             ELSE d

\* data["Running State"] = RUNNING_STATES.get(raw_state, f"Unknown ({raw_state})")
TranslateRunningState(d) ==
    IF "Running State" \notin DOMAIN d THEN d
    ELSE LET raw_state == IntOf(d["Running State"])
         IN  Put(d, "Running State",
                 Text(IF raw_state \in DOMAIN RUNNING_STATES
                      THEN RUNNING_STATES[raw_state]
                      ELSE "Unknown (" \o ToString(raw_state) \o ")"))

TranslateGridConnected(d) ==
    IF "Grid Connected Status" \notin DOMAIN d THEN d
    ELSE Put(d, "Grid Connected Status",
             Text(IF IntOf(d["Grid Connected Status"]) = 1
                  THEN "Connected" ELSE "Disconnected"))

\* round(x * co2, digits) for a snapshot number x and co2 in thousandths.
Co2Of(v, co2, digits) ==
    Num(IF digits >= v.p + 3 THEN v.m * co2 * Pow10(digits - v.p - 3)
        ELSE IF co2 > 0 THEN RoundProduct(co2, v.m, Pow10(v.p + 3 - digits))
        ELSE IF co2 = 0 THEN 0
        ELSE -RoundProduct(-co2, v.m, Pow10(v.p + 3 - digits)), digits)

\* The same for a total x, with digits < x.p + 3.
Co2Of32(v, co2, digits) ==
    LET s == IF v.neg THEN -1 ELSE 1 IN
    Num(IF co2 > 0 THEN s * RoundProduct32(co2, v.m, Pow10(v.p + 3 - digits))
        ELSE IF co2 = 0 THEN 0
        ELSE -s * RoundProduct32(-co2, v.m, Pow10(v.p + 3 - digits)), digits)

Co2Savings(d, co2) ==
    LET d1 == IF "Daily PV Energy" \in DOMAIN d
              THEN Put(d, "Daily CO2 Saved", Co2Of(d["Daily PV Energy"], co2, 2))
              ELSE d
    IN  IF "Total PV Energy" \in DOMAIN d1
        THEN Put(d1, "Total CO2 Saved", Co2Of32(d1["Total PV Energy"], co2, 1))
        ELSE d1

\* Battery cycle tracking, for a capacity in hundredths of a kWh.  With
\* T = total discharge in tenths of a kWh, cycles = 10 T / capacity and
\* health = max(0, 100 (1 - cycles / rated)).  The result is [ok, data]:
\* ok is FALSE when the division by the rated cycles raises
\* ZeroDivisionError.
BatteryCycles(d, capacity, rated) ==
    IF "Total Battery Discharge Energy" \notin DOMAIN d \/ ~(capacity > 0)
    THEN [ok |-> TRUE, data |-> d]
    ELSE
    LET T == d["Total Battery Discharge Energy"].m
        s == IF d["Total Battery Discharge Energy"].neg THEN -1 ELSE 1
        d1 == Put(d, "Battery Cycles",
                  Num(s * RoundProduct32(100, T, capacity), 1))
    IN  IF rated = 0 THEN [ok |-> FALSE, data |-> EmptySnapshot]
        ELSE
        LET D == capacity * rated
            tenths == IF D > 0
                      THEN 1000 - s * RoundProduct32(10000, T, D)
                      ELSE 1000 + s * RoundProduct32(10000, T, -D)
        IN  [ok |-> TRUE,
             data |-> Put(d1, "Battery Health",
                          Num(IF tenths > 0 THEN tenths ELSE 0, 1))]

\* _parse, for a calibration [co2, capacity, rated].
_parse(regs, calib) ==
    LET d1 == ParseSingles(regs, EmptySnapshot)
        d2 == ParseBattery(regs, d1)
        d3 == ParseTotals(regs, d2)
        d4 == TranslateGridConnected(TranslateRunningState(d3))
        d5 == Co2Savings(d4, calib.co2)
    IN  BatteryCycles(d5, calib.capacity, calib.rated)

\* ------------------------------------------------------------------------
\* What the polling transport returns
\* ------------------------------------------------------------------------
MaxAttempts == 3

\* A response of read_input_registers(start, count): values which depend
\* on the address and on which response it is; response 0 holds count
\* values, response 1 is one value short.
TransportValues(start, count, seed) ==
    [k \in 1..(count - seed) |-> (start + k - 1 + seed) % 8]
PollSeeds == {0, 1}

\* Responses to the identification read: a known device type with a
\* firmware version, an unknown type in a block too short for one, and an
\* empty block.
DevInfoFull == << 3, 0, 0, 0, 0, 0, 0, 0, 0, 0, 0, 0, 0, 1, 47, 0 >>
DevInfoResponses == { DevInfoFull, << 9, 0, 0, 0 >>, << >> }

Calibrations ==
    { [co2 |-> DEFAULT_CO2_FACTOR, capacity |-> DEFAULT_BATTERY_CAPACITY,
       rated |-> DEFAULT_BATTERY_RATED_CYCLES] }

\* ------------------------------------------------------------------------
\* State
\* ------------------------------------------------------------------------
VARIABLES
    \* SolarmanV5Server
    server,           \* _server: "listening", "closing" (close() called,
                      \* wait_closed() pending), "stopped" (None)
    \* SolarmanV5Server._handle_client, one task per connection
    conn,             \* [pc, frames, idx] of each connection
    rx,               \* history: the chunk ids each connection has read
    extracted,        \* history: [type, serial] of every frame parsed
    acks,             \* history: the bytes of every ack written
    drains,           \* history: whether each awaited drain returned
    deliveries,       \* history: [n, regs] of every on_data call
    nreads,           \* number of reads so far
    \* SolarmanDeyeCoordinator
    calib,            \* _co2_factor, _battery_capacity, _battery_rated_cycles
    pushed_registers, \* _pushed_registers: << >> is None, << regs >> a map
    data,             \* DataUpdateCoordinator.data: << >> is None
    client,           \* _client: 0 is None, else the id of its connection
    device_info_read, \* _device_info_read
    device_type,
    firmware_version, \* "" is None
    \* one refresh (_async_update_data) and its executor jobs
    cpc,              \* where the refresh is
    attempt,          \* _read_registers: attempt
    blk,              \* _read_registers: index of the next block to read
    regs,             \* _read_registers: regs
    info_client,      \* _read_device_info: client (0 before it is created)
    open,             \* the outbound connections that are open
    \* history of the refreshes
    ncycles,          \* number of refreshes started
    cycle,            \* the current (or last) refresh
    pushCount,        \* number of receive_pushed_data calls so far
    slotId,           \* which of them filled the slot (0: none)
    consumed,         \* the slotId of every pushed map decoded, in order
    life,             \* history of the coordinator's lifetime
    \* what the run is limited to: [reads, cycles], and whether the
    \* server's histories are kept: [history]
    limit,
    \* one call of _parse_v5_frames on a buffer
    buffer,           \* the buffer: its bytes, and how it was made
    parsed,           \* << >> before the call, << result >> after it
    \* _parse_v5_frames on the buffer, one iteration of its loop at a time
    scan              \* pos, frames, where each frame started, and the pc

serverVars == << server, conn, rx, extracted, acks, drains, deliveries, nreads >>
slotVars == << pushed_registers, pushCount, slotId >>
identVars == << device_info_read, device_type, firmware_version >>
pollVars == << client, attempt, blk, regs, info_client, open >>
cycleVars == << calib, data, cpc, ncycles, cycle, consumed, life >>
cycleVarsButCpc == << calib, data, ncycles, cycle, consumed >>
fixedVars == << limit, buffer, parsed, scan >>
vars == << serverVars, slotVars, identVars, pollVars, cycleVars, fixedVars >>

Conns == 1..MaxConns

\* The record of a refresh: whether the slot was full when it started, the
\* map it took from the slot, whether it called _read_registers, the
\* attempts that function started, failed and completed, the attempt that
\* completed (0: none), its sleeps, the map it returned, the map given to
\* _parse and where it came from, whether data was None at the start, and
\* how the refresh ended.  In the runs that keep the histories: the
\* connections _read_registers made, the block reads of its current
\* attempt (attempt, connection, request, response) and those of the
\* attempts that failed.
NoCycle ==
    [slotFull |-> FALSE, taken |-> << >>, polled |-> FALSE,
     attempts |-> 0, failed |-> 0, succeeded |-> 0, okAttempt |-> 0,
     sleeps |-> 0, returned |-> << >>, decoded |-> << >>, source |-> "none",
     dataWasNone |-> TRUE, outcome |-> "none",
     conns |-> 0, blocks |-> << >>, lost |-> << >>]

\* The lifetime so far: the runs of _read_device_info, the identification
\* reads it issued, the refresh it ran in (0: none), whether it failed,
\* the first refresh that decoded a register map (0: none), and how far
\* async_shutdown has come ("none", "requested", "done").
NoLife ==
    [infoRuns |-> 0, infoReads |-> 0, infoCycle |-> 0, infoFailed |-> FALSE,
     firstOk |-> 0, shutdown |-> "none"]

\* _parse_v5_frames before it is called.
NoScan == [pc |-> "idle", pos |-> 0, frames |-> << >>, starts |-> << >>]

InitState ==
    /\ scan = NoScan
    /\ server = "listening"
    /\ conn = [c \in Conns |-> [pc |-> "free", frames |-> << >>, idx |-> 0]]
    /\ rx = [c \in Conns |-> << >>]
    /\ extracted = [c \in Conns |-> << >>]
    /\ acks = [c \in Conns |-> << >>]
    /\ drains = [c \in Conns |-> << >>]
    /\ deliveries = [c \in Conns |-> << >>]
    /\ nreads = 0
    /\ pushed_registers = << >>
    /\ data = << >>
    /\ client = 0
    /\ device_info_read = FALSE
    /\ device_type = "Hybrid Inverter"
    /\ firmware_version = ""
    /\ cpc = "idle"
    /\ attempt = 0
    /\ blk = 0
    /\ regs = EmptyRegs
    /\ info_client = 0
    /\ open = {}
    /\ ncycles = 0
    /\ cycle = NoCycle
    /\ pushCount = 0
    /\ slotId = 0
    /\ consumed = << >>
    /\ life = NoLife

\* What a buffer was made for: a frame or an acknowledgement to build.
NoArg == [type |-> 0, serial |-> U32(0, 0), sequence |-> 0, control |-> 0,
          payload |-> << >>]
NoBuffer == [kind |-> "none", head |-> << >>, off |-> 0, tail |-> << >>,
             arg |-> NoArg, bytes |-> << >>, regs |-> EmptyRegs]

\* The coordinator with the server feeding its slot.
Init ==
    /\ InitState
    /\ calib \in Calibrations
    /\ limit = [reads |-> MaxPushReads, cycles |-> MaxCycles, history |-> FALSE]
    /\ buffer = NoBuffer
    /\ parsed = << >>

\* The server alone.
InitServer ==
    /\ InitState
    /\ calib \in Calibrations
    /\ limit = [reads |-> MaxReads, cycles |-> 0, history |-> TRUE]
    /\ buffer = NoBuffer
    /\ parsed = << >>

\* The coordinator alone (poll mode: no server is started).
InitPoll ==
    /\ InitState
    /\ calib \in Calibrations
    /\ limit = [reads |-> 0, cycles |-> MaxPollCycles, history |-> TRUE]
    /\ buffer = NoBuffer
    /\ parsed = << >>

\* ------------------------------------------------------------------------
\* SolarmanDeyeCoordinator.receive_pushed_data: the new value of the slot
\* ------------------------------------------------------------------------
\* A slot that keeps the map it holds until a refresh has taken it.
keep_pushed_data(slot, r) == IF slot = << >> THEN << r >> ELSE slot

\* A slot that is updated in place instead of replaced.
merge_pushed_data(slot, r) ==
    IF slot = << >> THEN << r >>
    ELSE << [a \in (DOMAIN slot[1]) \cup (DOMAIN r) |->
                IF a \in DOMAIN r THEN r[a] ELSE slot[1][a]] >>

receive_pushed_data(slot, r) == << r >>

\* ------------------------------------------------------------------------
\* SolarmanV5Server._handle_client
\* ------------------------------------------------------------------------
FrameTag(f) == [type |-> f.type, serial |-> f.serial]

RECURSIVE Tags(_, _)
Tags(frames, i) ==
    IF i > Len(frames) THEN << >>
    ELSE << FrameTag(frames[i]) >> \o Tags(frames, i + 1)

\* A handler that acknowledges data reports only.
WriteAckDataOnly(log, f) ==
    IF f.type = FRAME_DATA THEN Append(log, _build_v5_ack(f.type, f.serial, 0))
    ELSE log

\* A handler that numbers the acknowledgements of a connection.
WriteAckNumbered(log, f) ==
    Append(log, _build_v5_ack(f.type, f.serial, Len(log) + 1))

\* ack = _build_v5_ack(frame_type, serial); writer.write(ack)
WriteAck(log, f) == Append(log, _build_v5_ack(f.type, f.serial, 0))

\* A routing without the serial filter.
RoutedAnySerial(f) ==
    IF f.type = FRAME_DATA THEN _extract_registers_from_payload(f.payload)
    ELSE EmptyRegs

\* The register map the routing of frame f hands to on_data: EmptyRegs
\* when it hands over nothing.
Routed(f) ==
    IF f.serial # Serial THEN EmptyRegs
    ELSE IF f.type = FRAME_DATA THEN _extract_registers_from_payload(f.payload)
    ELSE EmptyRegs

\* The handler has left its loop and closed the writer.
Closed == [pc |-> "closed", frames |-> << >>, idx |-> 0]

\* A history: extended in the runs that keep them.
Log(h, extended) == IF limit.history THEN extended ELSE h

\* A handler whose end takes the listening socket down with it.
StopsListening(srv) == "stopped"

\* The server once a handler has ended: finally closes the handler's own
\* writer and nothing else.
AfterConnectionEnd(srv) == srv

\* asyncio.start_server calls _handle_client for a new connection.
Accept(c) ==
    /\ server = "listening"
    /\ conn[c].pc = "free"
    /\ \A b \in Conns : b < c => conn[b].pc # "free"
    /\ conn' = [conn EXCEPT ![c].pc = "read"]
    /\ UNCHANGED << server, rx, extracted, acks, drains, deliveries, nreads >>
    /\ UNCHANGED << slotVars, identVars, pollVars, cycleVars, fixedVars >>

\* reader.read returns the bytes of chunk k: parse them, and write the
\* acknowledgement of the first frame (up to await writer.drain()).
HandleRead(c, k) ==
    /\ conn[c].pc = "read"
    /\ nreads < limit.reads
    /\ nreads' = nreads + 1
    /\ rx' = [rx EXCEPT ![c] = Log(@, Append(@, k))]
    /\ LET r == _parse_v5_frames(Chunks[k]) IN
       IF r.err
       THEN /\ conn' = [conn EXCEPT ![c] = Closed]
            /\ server' = AfterConnectionEnd(server)
            /\ UNCHANGED << extracted, acks, drains >>
       ELSE IF r.frames = << >>
       THEN UNCHANGED << server, conn, extracted, acks, drains >>
       ELSE /\ server' = server
            /\ conn' = [conn EXCEPT ![c].pc = "drain", ![c].frames = r.frames,
                                    ![c].idx = 1]
            /\ extracted' = [extracted EXCEPT ![c] = Log(@, @ \o Tags(r.frames, 1))]
            /\ acks' = [acks EXCEPT ![c] = Log(@, WriteAck(@, r.frames[1]))]
            /\ UNCHANGED drains
    /\ UNCHANGED deliveries
    /\ UNCHANGED << slotVars, identVars, pollVars, cycleVars, fixedVars >>

\* A handler without the try around the acknowledgement: an exception of
\* the write reaches the handler's outer except clauses and ends the loop.
AckFailureEnds(ok) == ok

\* except Exception: pass -- whether or not the acknowledgement could be
\* written, the handler goes on with the frame.
GoesOnAfterAck(ok) == TRUE

\* await writer.drain() returns (ok) or raises (~ok); then the frame is
\* routed, and the next frame's acknowledgement is written or, after the
\* last frame, the handler goes back to reader.read.
HandleDrain(c, ok) ==
    /\ conn[c].pc = "drain"
    /\ drains' = [drains EXCEPT ![c] = Log(@, Append(@, ok))]
    /\ IF ~GoesOnAfterAck(ok)
       THEN /\ conn' = [conn EXCEPT ![c] = Closed]
            /\ server' = AfterConnectionEnd(server)
            /\ UNCHANGED << slotVars, deliveries, acks >>
       ELSE
       LET f == conn[c].frames[conn[c].idx]
           n == Len(extracted[c]) - Len(conn[c].frames) + conn[c].idx
           r == Routed(f)
       IN  /\ server' = server
           /\ IF r # EmptyRegs
              THEN /\ pushed_registers' = receive_pushed_data(pushed_registers, r)
                   /\ pushCount' = pushCount + 1
                   /\ slotId' = pushCount + 1
                   /\ deliveries' = [deliveries EXCEPT ![c] =
                                        Log(@, Append(@, [n |-> n, regs |-> r,
                                                         acked |-> Len(acks[c])]))]
              ELSE UNCHANGED << slotVars, deliveries >>
           /\ IF conn[c].idx < Len(conn[c].frames)
              THEN /\ conn' = [conn EXCEPT ![c].idx = @ + 1]
                   /\ acks' = [acks EXCEPT ![c] =
                                  Log(@, WriteAck(@, conn[c].frames[conn[c].idx + 1]))]
              ELSE /\ conn' = [conn EXCEPT ![c].pc = "read",
                                           ![c].frames = << >>, ![c].idx = 0]
                   /\ UNCHANGED acks
    /\ UNCHANGED << rx, extracted, nreads >>
    /\ UNCHANGED << identVars, pollVars, cycleVars, fixedVars >>

\* reader.read returns b"": break.
ReadEof(c) ==
    /\ conn[c].pc = "read"
    /\ conn' = [conn EXCEPT ![c] = Closed]
    /\ server' = AfterConnectionEnd(server)
    /\ UNCHANGED << rx, extracted, acks, drains, deliveries, nreads >>
    /\ UNCHANGED << slotVars, identVars, pollVars, cycleVars, fixedVars >>

\* asyncio.wait_for raises TimeoutError after 300 s without bytes.
ReadTimeout(c) ==
    /\ conn[c].pc = "read"
    /\ conn' = [conn EXCEPT ![c] = Closed]
    /\ server' = AfterConnectionEnd(server)
    /\ UNCHANGED << rx, extracted, acks, drains, deliveries, nreads >>
    /\ UNCHANGED << slotVars, identVars, pollVars, cycleVars, fixedVars >>

\* reader.read raises ConnectionResetError.
ReadReset(c) ==
    /\ conn[c].pc = "read"
    /\ conn' = [conn EXCEPT ![c] = Closed]
    /\ server' = AfterConnectionEnd(server)
    /\ UNCHANGED << rx, extracted, acks, drains, deliveries, nreads >>
    /\ UNCHANGED << slotVars, identVars, pollVars, cycleVars, fixedVars >>

\* SolarmanV5Server.stop, first step: self._server.close() closes the
\* listening socket, then the coroutine awaits wait_closed().
StopClose ==
    /\ server = "listening"
    /\ server' = "closing"
    /\ UNCHANGED << conn, rx, extracted, acks, drains, deliveries, nreads >>
    /\ UNCHANGED << slotVars, identVars, pollVars, cycleVars, fixedVars >>

\* SolarmanV5Server.stop, second step: wait_closed() returns and
\* self._server = None.  Whether wait_closed() waits for the connections
\* of the handlers to end (waits) or returns at once depends on the
\* Python version that runs the integration; in neither case does stop
\* close a connection.
StopWaitClosed(waits) ==
    /\ server = "closing"
    /\ waits => \A c \in Conns : conn[c].pc \notin {"read", "drain"}
    /\ server' = "stopped"
    /\ UNCHANGED << conn, rx, extracted, acks, drains, deliveries, nreads >>
    /\ UNCHANGED << slotVars, identVars, pollVars, cycleVars, fixedVars >>

\* ------------------------------------------------------------------------
\* SolarmanDeyeCoordinator: one refresh and its executor jobs
\* ------------------------------------------------------------------------

\* A refresh that never looks at the slot.
NeverUsePushed(slot) == FALSE

\* A refresh that leaves the pushed map in the slot.
SlotKept(slot) == slot

\* A refresh that answers every failed poll with an empty snapshot.
AlwaysReturnsEmpty(d) == TRUE

\* A reader that gives up at the first failure.
AfterFailureNoRetry(att) == "raised"

\* A reader that waits after its last failure too, before it raises.
AfterFailureSleepFirst(att) == IF att <= MaxAttempts THEN "sleep" ELSE "raised"

\* _async_update_data: whether the pushed map is used.
UsePushed(slot) == slot # << >>

\* _async_update_data: the slot after the pushed map has been taken.
SlotAfterTake(slot) == << >>

\* A refresh that looks at the slot again once its poll has returned.
ArrivedOrPolled(polled, slot) == IF slot # << >> THEN slot[1] ELSE polled

\* _async_update_data after the poll: return self._parse(regs), regs being
\* what _read_registers returned, whatever the slot holds by then.
PolledMap(polled, slot) == polled

\* _async_update_data: whether a failed poll returns {} instead of
\* raising UpdateFailed.
ReturnsEmpty(d) == d = << >>

\* _read_registers: what follows the failure of an attempt: the sleep
\* before the next one, or raise last_err after the loop.
AfterFailure(att) == IF att < MaxAttempts THEN "sleep" ELSE "raised"

\* _read_registers: what follows the read of block b: the next block, or
\* return regs after the last.
AfterBlock(b) == IF b < Len(READ_BLOCKS) THEN "read" ELSE "returned"

\* The id of a new outbound connection: the least one not in use.
NewSock(inUse) ==
    CHOOSE n \in 1..(Cardinality(inUse) + 1) :
        n \notin inUse /\ \A m \in 1..(n - 1) : m \in inUse

\* _disconnect: the open connections once self._client is closed.
OpenAfterDisconnect == IF client # 0 THEN open \ {client} ELSE open

\* return self._parse(regs), and the framework's self.data = result; when
\* _parse raises, the refresh fails and data keeps its value.
Finish(r) ==
    LET res == _parse(r, calib) IN
    /\ data' = IF res.ok THEN << res.data >> ELSE data
    /\ cycle' = [cycle EXCEPT !.source = "poll", !.decoded = << r >>,
                              !.outcome = IF res.ok THEN "snapshot" ELSE "error"]
    /\ life' = [life EXCEPT !.firstOk = IF @ = 0 /\ res.ok THEN ncycles ELSE @]
    /\ regs' = EmptyRegs
    /\ cpc' = "idle"

\* _async_update_data with a pushed map in the slot: take it, clear the
\* slot, decode it.
UpdateFromPush ==
    /\ cpc = "idle"
    /\ ncycles < limit.cycles
    /\ UsePushed(pushed_registers)
    /\ LET r == pushed_registers[1]
           res == _parse(r, calib)
       IN  /\ pushed_registers' = SlotAfterTake(pushed_registers)
           /\ slotId' = IF pushed_registers' = << >> THEN 0 ELSE slotId
           /\ consumed' = Append(consumed, slotId)
           /\ data' = IF res.ok THEN << res.data >> ELSE data
           /\ cycle' = [NoCycle EXCEPT !.slotFull = TRUE, !.source = "push",
                            !.taken = << r >>, !.decoded = << r >>,
                            !.dataWasNone = (data = << >>),
                            !.outcome = IF res.ok THEN "snapshot" ELSE "error"]
           /\ life' = [life EXCEPT !.firstOk = IF @ = 0 /\ res.ok
                                                THEN ncycles + 1 ELSE @]
    /\ ncycles' = ncycles + 1
    /\ UNCHANGED << calib, cpc, pushCount >>
    /\ UNCHANGED << serverVars, identVars, pollVars, fixedVars >>

\* _async_update_data with an empty slot: hand _read_registers to the
\* executor.
UpdateStartPoll ==
    /\ cpc = "idle"
    /\ ncycles < limit.cycles
    /\ ~UsePushed(pushed_registers)
    /\ cpc' = "connect"
    /\ attempt' = 1
    /\ ncycles' = ncycles + 1
    /\ cycle' = [NoCycle EXCEPT !.slotFull = (pushed_registers # << >>),
                                !.taken = pushed_registers,
                                !.polled = TRUE, !.outcome = "running",
                                !.dataWasNone = (data = << >>)]
    /\ UNCHANGED << calib, data, consumed, life >>
    /\ UNCHANGED << client, blk, regs, info_client, open >>
    /\ UNCHANGED << serverVars, slotVars, identVars, fixedVars >>

\* A reader whose map is created once, before the loop over the attempts.
KeepRegs(r) == r

\* _read_registers: regs = {} at the start of every attempt.
FreshRegs(r) == EmptyRegs

\* _read_registers, the failure of an attempt: last_err = err,
\* self._disconnect(), then the sleep (the local regs keeps what the
\* attempt has read) or, after the loop, raise last_err (which ends the
\* job: its locals are gone).
AttemptFailed ==
    /\ client' = 0
    /\ open' = OpenAfterDisconnect
    /\ cpc' = AfterFailure(attempt)
    /\ IF cpc' = "raised"
       THEN attempt' = 0 /\ blk' = 0 /\ regs' = EmptyRegs
       ELSE attempt' = attempt /\ blk' = 0 /\ regs' = regs
    /\ cycle' = [cycle EXCEPT !.attempts = IF cpc = "connect" THEN @ + 1 ELSE @,
                              !.failed = @ + 1,
                              !.lost = Log(@, @ \o cycle.blocks),
                              !.blocks = << >>]

\* _read_registers, start of an attempt: self._disconnect(), then
\* self._new_client() connects (ok) or raises.
PollConnect(ok) ==
    /\ cpc = "connect"
    /\ IF ok
       THEN /\ client' = NewSock(OpenAfterDisconnect)
            /\ open' = OpenAfterDisconnect \cup {client'}
            /\ regs' = FreshRegs(regs)
            /\ blk' = 1
            /\ cpc' = "read"
            /\ cycle' = [cycle EXCEPT !.attempts = @ + 1,
                                      !.conns = Log(@, @ + 1)]
            /\ UNCHANGED attempt
       ELSE AttemptFailed
    /\ UNCHANGED info_client
    /\ UNCHANGED << calib, data, ncycles, consumed, life >>
    /\ UNCHANGED << serverVars, slotVars, identVars, fixedVars >>

\* _read_registers: client.read_input_registers of block blk returns
\* values (ok) or raises; after the last block the function returns regs
\* (which ends the job), leaving self._client as it is.  A read on a
\* connection that has been closed under the attempt raises.
PollRead(ok, seed) ==
    /\ cpc = "read"
    /\ ok => client # 0
    /\ IF ok
       THEN /\ regs' = AssignBlock(regs, READ_BLOCKS[blk][1],
                           TransportValues(READ_BLOCKS[blk][1],
                                           READ_BLOCKS[blk][2], seed))
            /\ cpc' = AfterBlock(blk)
            /\ LET read == [attempt |-> attempt, conn |-> cycle.conns,
                            start |-> READ_BLOCKS[blk][1],
                            count |-> READ_BLOCKS[blk][2],
                            values |-> TransportValues(READ_BLOCKS[blk][1],
                                                       READ_BLOCKS[blk][2],
                                                       seed)]
               IN
               IF cpc' = "returned"
               THEN /\ attempt' = 0
                    /\ blk' = 0
                    /\ cycle' = [cycle EXCEPT !.succeeded = @ + 1,
                                              !.okAttempt = attempt,
                                              !.returned = << regs' >>,
                                              !.blocks = Log(@, Append(@, read))]
               ELSE /\ attempt' = attempt
                    /\ blk' = blk + 1
                    /\ cycle' = [cycle EXCEPT
                                     !.blocks = Log(@, Append(@, read))]
            /\ UNCHANGED << client, open >>
       ELSE AttemptFailed
    /\ UNCHANGED info_client
    /\ UNCHANGED << calib, data, ncycles, consumed, life >>
    /\ UNCHANGED << serverVars, slotVars, identVars, fixedVars >>

\* _read_registers: time.sleep(2), then the next attempt.
PollSleep ==
    /\ cpc = "sleep"
    /\ attempt' = attempt + 1
    /\ cpc' = "connect"
    /\ cycle' = [cycle EXCEPT !.sleeps = @ + 1]
    /\ UNCHANGED << client, blk, regs, info_client, open >>
    /\ UNCHANGED << calib, data, ncycles, consumed, life >>
    /\ UNCHANGED << serverVars, slotVars, identVars, fixedVars >>

\* _async_update_data after _read_registers has raised.
UpdatePollFailed ==
    /\ cpc = "raised"
    /\ client' = 0
    /\ IF ReturnsEmpty(data)
       THEN /\ data' = << EmptySnapshot >>
            /\ cycle' = [cycle EXCEPT !.outcome = "empty"]
       ELSE /\ data' = data
            /\ cycle' = [cycle EXCEPT !.outcome = "UpdateFailed"]
    /\ cpc' = "idle"
    /\ UNCHANGED << attempt, blk, regs, info_client, open >>
    /\ UNCHANGED << calib, ncycles, consumed, life >>
    /\ UNCHANGED << serverVars, slotVars, identVars, fixedVars >>

\* _async_update_data after _read_registers has returned: hand
\* _read_device_info to the executor if it has not run yet, else decode.
UpdatePolled ==
    /\ cpc = "returned"
    /\ IF ~device_info_read
       THEN /\ cpc' = "info_connect"
            /\ UNCHANGED << data, cycle, regs, life >>
       ELSE Finish(PolledMap(regs, pushed_registers))
    /\ UNCHANGED << client, attempt, blk, info_client, open >>
    /\ UNCHANGED << calib, ncycles, consumed >>
    /\ UNCHANGED << serverVars, slotVars, identVars, fixedVars >>

\* A latch that is set only by a read that went through.
LatchOnlyOnSuccess(done) == done

\* _read_device_info: self._device_info_read = True, reached whether the
\* try block went through (done) or raised.
LatchAfter(done) == TRUE

\* An identification that is decoded from whatever values there are.
InfoDecodedAlways(ok, values) == Len(values) > 0

\* _read_device_info: whether the assignments of device_type and
\* firmware_version are reached: the read returned (ok) and values[0]
\* did not raise IndexError.
InfoDecoded(ok, values) == ok /\ Len(values) > 0

\* _read_device_info: self._disconnect(), then self._new_client()
\* connects (ok) or raises, which ends the function.
InfoConnect(ok) ==
    /\ cpc = "info_connect"
    /\ ~device_info_read
    /\ client' = 0
    /\ IF ok
       THEN /\ info_client' = NewSock(OpenAfterDisconnect)
            /\ open' = OpenAfterDisconnect \cup {info_client'}
            /\ cpc' = "info_read"
            /\ UNCHANGED device_info_read
       ELSE /\ open' = OpenAfterDisconnect
            /\ device_info_read' = LatchAfter(FALSE)
            /\ cpc' = "info_done"
            /\ UNCHANGED info_client
    /\ life' = [life EXCEPT !.infoRuns = @ + 1, !.infoCycle = ncycles,
                            !.infoFailed = ~ok]
    /\ UNCHANGED << device_type, firmware_version, attempt, blk, regs >>
    /\ UNCHANGED cycleVarsButCpc
    /\ UNCHANGED << serverVars, slotVars, fixedVars >>

\* _read_device_info: the read of registers 0-15 returns values (ok) or
\* raises.  client.disconnect() is reached only when nothing has raised.
InfoRead(ok, values) ==
    /\ cpc = "info_read"
    /\ IF InfoDecoded(ok, values)
       THEN /\ device_type' = IF values[1] \in DOMAIN DEVICE_TYPES
                              THEN DEVICE_TYPES[values[1]]
                              ELSE "Type " \o ToString(values[1])
            /\ firmware_version' =
                   IF Len(values) > 15
                   THEN ToString(values[14]) \o "." \o ToString(values[15])
                        \o "." \o ToString(values[16])
                   ELSE firmware_version
            /\ open' = open \ {info_client}
       ELSE UNCHANGED << device_type, firmware_version, open >>
    /\ info_client' = 0
    /\ device_info_read' = LatchAfter(ok /\ Len(values) > 0)
    /\ life' = [life EXCEPT !.infoReads = @ + 1,
                            !.infoFailed = ~(ok /\ Len(values) > 0)]
    /\ cpc' = "info_done"
    /\ UNCHANGED << client, attempt, blk, regs >>
    /\ UNCHANGED cycleVarsButCpc
    /\ UNCHANGED << serverVars, slotVars, fixedVars >>

\* _async_update_data after _read_device_info: decode the polled map.
UpdateFinish ==
    /\ cpc = "info_done"
    /\ Finish(PolledMap(regs, pushed_registers))
    /\ UNCHANGED << client, attempt, blk, info_client, open >>
    /\ UNCHANGED << calib, ncycles, consumed >>
    /\ UNCHANGED << serverVars, slotVars, identVars, fixedVars >>

\* async_shutdown: await super().async_shutdown(): the framework stops
\* scheduling refreshes; a job that is running in the executor goes on.
ShutdownRequest ==
    /\ life.shutdown = "none"
    /\ life' = [life EXCEPT !.shutdown = "requested"]
    /\ UNCHANGED << calib, data, cpc, ncycles, cycle, consumed >>
    /\ UNCHANGED << serverVars, slotVars, identVars, pollVars, fixedVars >>

\* async_shutdown: the executor job self._disconnect, on a thread of its
\* own, whatever the job of a refresh is doing.
ShutdownDisconnect ==
    /\ life.shutdown = "requested"
    /\ life' = [life EXCEPT !.shutdown = "done"]
    /\ client' = 0
    /\ open' = OpenAfterDisconnect
    /\ UNCHANGED << attempt, blk, regs, info_client >>
    /\ UNCHANGED << calib, data, cpc, ncycles, cycle, consumed >>
    /\ UNCHANGED << serverVars, slotVars, identVars, fixedVars >>

\* The refreshes of the coordinator, for the responses the transport may
\* give to the block reads (seeds) and to the identification read (infos).
CoordinatorNext(seeds, infos) ==
    \/ UpdateFromPush
    \/ UpdateStartPoll
    \/ \E ok \in BOOLEAN : PollConnect(ok)
    \/ \E ok \in BOOLEAN, seed \in seeds : PollRead(ok, seed)
    \/ PollSleep
    \/ UpdatePollFailed
    \/ UpdatePolled
    \/ \E ok \in BOOLEAN : InfoConnect(ok)
    \/ \E ok \in BOOLEAN, values \in infos : InfoRead(ok, values)
    \/ UpdateFinish

\* The connection handlers of the server.
ServerNext(ids) ==
    \E c \in Conns :
        \/ Accept(c)
        \/ \E k \in ids : HandleRead(c, k)
        \/ \E ok \in BOOLEAN : HandleDrain(c, ok)
        \/ ReadEof(c)
        \/ ReadTimeout(c)
        \/ ReadReset(c)

\* ------------------------------------------------------------------------
\* One call of _parse_v5_frames
\* ------------------------------------------------------------------------
\* frame with the byte at offset off replaced by v.
Corrupt(frame, off, v) == [frame EXCEPT ![off + 1] = v]

\* The bytes a corrupted byte is replaced by (other than itself).
CorruptValues == {0, 1, V5_END, V5_START, 255}

\* Buffers: one frame with one byte corrupted, followed by valid frames.
CorruptedHeads == {FrameHeartbeat, FrameA}
ValidTails == { << FrameB >>, << FrameHello, FrameOther >> }

RECURSIVE Concat(_, _)
Concat(chunks, i) ==
    IF i > Len(chunks) THEN << >> ELSE chunks[i] \o Concat(chunks, i + 1)

\* Fields of well-formed frames and of acknowledgements: values whose
\* bytes hold the start and end markers are among them.
FrameTypes == {0, V5_END, FRAME_HELLO, FRAME_DATA, FRAME_HEARTBEAT, V5_START, 255}
Serials == {Serial, U32(0, 0), U32(65535, 65535), U32(42405, 5541)}
Sequences == {0, 5541, 65535}
Controls == {16912, 42405}
Payloads ==
    { << >>, << 0 >>, << V5_START >>, << V5_END, V5_START, V5_END >>,
      DataPayload(4, << 2, 35 >>), FrameHeartbeat }

\* A buffer holding one frame with one corrupted byte and valid frames
\* after it.
CorruptedBuffers ==
    { [kind |-> "corrupted", head |-> x[1], off |-> x[2], tail |-> x[4],
       arg |-> NoArg, regs |-> EmptyRegs,
       bytes |-> Corrupt(x[1], x[2], x[3]) \o Concat(x[4], 1)] :
      x \in { y \in CorruptedHeads \X (0..(Len(FrameA) - 1)) \X CorruptValues
                  \X ValidTails :
                 y[2] < Len(y[1]) /\ y[3] # At(y[1], y[2]) } }

\* A buffer holding one well-formed frame alone.
SingleBuffers ==
    { [kind |-> "single", head |-> << >>, off |-> 0, tail |-> << >>,
       arg |-> [type |-> x[1], serial |-> x[2], sequence |-> x[3],
                control |-> x[4], payload |-> x[5]],
       regs |-> EmptyRegs,
       bytes |-> LoggerFrame(x[4], x[3], x[2], x[1], x[5])] :
      x \in FrameTypes \X Serials \X Sequences \X Controls \X Payloads }

\* A candidate whose length field is n: the start byte, the length field,
\* the first n bytes of the fields that follow it in a frame (control,
\* sequence, serial, type, payload), a matching checksum and the end
\* marker.
Candidate(n, frame_type, payload) ==
    LET fields == PackLE16(16912) \o PackLE16(1) \o PackLE32(Serial)
                  \o << frame_type >> \o payload
        head == << V5_START >> \o PackLE16(n) \o Slice(fields, 0, n)
    IN  head \o << Checksum(head) >> \o << V5_END >>

\* The length fields of the candidates: those of frames with no payload
\* and with a payload of one byte, and every shorter one.
CandidateLengths == 0..10

\* A buffer holding one candidate with a given length field and valid
\* frames after it.
ShortBuffers ==
    { [kind |-> "short", head |-> Candidate(x[1], x[2], << 7 >>),
       off |-> x[1], tail |-> x[3], arg |-> NoArg, regs |-> EmptyRegs,
       bytes |-> Candidate(x[1], x[2], << 7 >>) \o Concat(x[3], 1)] :
      x \in CandidateLengths \X {FRAME_DATA, FRAME_HEARTBEAT} \X ValidTails }

\* The arguments of a call of _build_v5_ack, its result not yet built.
AckBuffers ==
    { [kind |-> "ack", head |-> << >>, off |-> 0, tail |-> << >>,
       arg |-> [type |-> x[1], serial |-> x[2], sequence |-> x[3],
                control |-> 0, payload |-> << >>],
       regs |-> EmptyRegs,
       bytes |-> << >>] :
      x \in FrameTypes \X Serials \X Sequences }

InitCodec ==
    /\ InitState
    /\ calib \in Calibrations
    /\ limit = [reads |-> 0, cycles |-> 0, history |-> FALSE]
    /\ buffer \in CorruptedBuffers \cup SingleBuffers \cup AckBuffers
                   \cup ShortBuffers
    /\ parsed = << >>

\* ack = _build_v5_ack(frame_type, serial, sequence)
BuildAck ==
    /\ buffer.kind = "ack"
    /\ buffer.bytes = << >>
    /\ buffer' = [buffer EXCEPT !.bytes = _build_v5_ack(buffer.arg.type,
                                                         buffer.arg.serial,
                                                         buffer.arg.sequence)]
    /\ UNCHANGED << limit, parsed, scan >>
    /\ UNCHANGED << serverVars, slotVars, identVars, pollVars, cycleVars >>

\* frames = _parse_v5_frames(data)
Decode ==
    /\ buffer.bytes # << >>
    /\ parsed = << >>
    /\ parsed' = << _parse_v5_frames(buffer.bytes) >>
    /\ UNCHANGED << limit, buffer, scan >>
    /\ UNCHANGED << serverVars, slotVars, identVars, pollVars, cycleVars >>

\* A scan that goes back to the candidate it has rejected.
BackToCandidate(start) == start

\* pos = start + 1 after a candidate has been rejected.
PastCandidate(start) == start + 1

\* _parse_v5_frames is called with the bytes of one read: frames = [],
\* pos = 0.
ScanCall ==
    /\ scan.pc = "idle"
    /\ buffer' \in CorruptedBuffers \cup SingleBuffers \cup ShortBuffers
    /\ scan' = [NoScan EXCEPT !.pc = "loop"]
    /\ UNCHANGED << limit, parsed >>
    /\ UNCHANGED << serverVars, slotVars, identVars, pollVars, cycleVars >>

\* data[start : start + frame_size] for the candidate at start, when the
\* loop gets as far as taking it; << >> when it has left before.
CandidateFrame(bytes, start) ==
    IF start = -1 \/ start + MIN_FRAME_SIZE > Len(bytes)
    THEN << >>
    ELSE Slice(bytes, start, start + 1 + 2 + UnpackLE16(bytes, start + 1) + 1 + 1)

\* The body of the loop of _parse_v5_frames, the test of the while
\* included, with start and frame as the body computes them: the
\* function returns, raises, or goes on at a new position.
LoopBody(bytes, sc, start, frame) ==
    LET length == UnpackLE16(bytes, start + 1)
        frame_size == 1 + 2 + length + 1 + 1
    IN
    IF sc.pos >= Len(bytes)
    THEN [sc EXCEPT !.pc = "returned"]
    ELSE IF start = -1 \/ start + MIN_FRAME_SIZE > Len(bytes)
    THEN [sc EXCEPT !.pc = "returned"]
    ELSE IF start + frame_size > Len(bytes)
    THEN [sc EXCEPT !.pc = "returned"]
    ELSE IF frame[Len(frame)] # V5_END
    THEN [sc EXCEPT !.pos = PastCandidate(start)]
    ELSE IF frame[Len(frame) - 1] # Checksum(Slice(frame, 0, Len(frame) - 2))
    THEN [sc EXCEPT !.pos = PastCandidate(start)]
    ELSE IF Len(frame) < 12
    THEN [sc EXCEPT !.pc = "raised"]
    ELSE [sc EXCEPT
             !.pos = start + frame_size,
             !.starts = Append(@, start),
             !.frames = Append(@, [type |-> At(frame, 11),
                                   serial |-> UnpackLE32(frame, 7),
                                   payload |-> Slice(frame, HEADER_SIZE,
                                                     Len(frame) - 2)])]

\* One iteration of the loop of _parse_v5_frames.
ScanStep ==
    /\ scan.pc = "loop"
    /\ \E start \in {Find(buffer.bytes, scan.pos)} :
       \E frame \in {CandidateFrame(buffer.bytes, start)} :
          scan' = LoopBody(buffer.bytes, scan, start, frame)
    /\ UNCHANGED << limit, buffer, parsed >>
    /\ UNCHANGED << serverVars, slotVars, identVars, pollVars, cycleVars >>

\* The loop of _parse_v5_frames on one buffer; the loop has no await and
\* no blocking call, so an iteration that can be taken is taken.
InitScan ==
    /\ InitState
    /\ calib \in Calibrations
    /\ limit = [reads |-> 0, cycles |-> 0, history |-> FALSE]
    /\ buffer = NoBuffer
    /\ parsed = << >>

NextScan == ScanCall \/ ScanStep
SpecScan == InitScan /\ [][NextScan]_vars /\ WF_vars(ScanStep)

NextCodec == BuildAck \/ Decode
SpecCodec == InitCodec /\ [][NextCodec]_vars

\* ------------------------------------------------------------------------
\* One call of _parse
\* ------------------------------------------------------------------------
\* The register addresses the tables name.
UsedRegs ==
    {SingleGroups[i].reg : i \in 1..Len(SingleGroups)}
    \cup {REGISTERS_BATTERY[i].reg : i \in 1..Len(REGISTERS_BATTERY)}
    \cup {REGISTERS_ENERGY_TOTAL[i].low : i \in 1..Len(REGISTERS_ENERGY_TOTAL)}
    \cup {REGISTERS_ENERGY_TOTAL[i].high : i \in 1..Len(REGISTERS_ENERGY_TOTAL)}

\* A register map over the addresses in S.
MapOver(S, seed) == [a \in S |-> (a + seed) % 8]

\* The sets of addresses a map is given over: all, none, all but one, one
\* alone, and the two words of one total alone.
PartialDomains ==
    {UsedRegs, {}}
    \cup {UsedRegs \ {a} : a \in UsedRegs}
    \cup {{a} : a \in UsedRegs}
    \cup {{REGISTERS_ENERGY_TOTAL[i].low, REGISTERS_ENERGY_TOTAL[i].high} :
             i \in 1..Len(REGISTERS_ENERGY_TOTAL)}

\* Calibrations: CO2 factor in thousandths, battery capacity in
\* hundredths of a kWh, rated cycles; zero included.  Where a quotient
\* falls exactly halfway between two decimals, round() decides by the
\* float nearest to the quotient, which these decimals cannot tell: the
\* capacities and the words of the totals are such that none does.
DecoderCalibrations ==
    [co2 : {DEFAULT_CO2_FACTOR, 0},
     capacity : {DEFAULT_BATTERY_CAPACITY, 0, 1024},
     rated : {DEFAULT_BATTERY_RATED_CYCLES, 0, 100}]

\* The words of a 32-bit total and the raw running states a map is given:
\* the ends of the 16-bit range, both sides of the sign bit, and the
\* running states in and out of RUNNING_STATES.
TotalWords == {0, 1, 9, 32767, 32768, 65535}
RunningRaw == {0, 1, 2, 3, 4, 5, 6, 255, 256, 32768, 65535}

\* Maps holding the two words of one total, and maps holding the running
\* state alone.
ValueMaps ==
    { (REGISTERS_ENERGY_TOTAL[i].low :> x[1])
      @@ (REGISTERS_ENERGY_TOTAL[i].high :> x[2]) :
      i \in 1..Len(REGISTERS_ENERGY_TOTAL), x \in TotalWords \X TotalWords }
    \cup { (59 :> v) : v \in RunningRaw }

DecoderBuffers ==
    { [NoBuffer EXCEPT !.kind = "regs", !.regs = MapOver(S, 0)] :
      S \in PartialDomains }
    \cup { [NoBuffer EXCEPT !.kind = "regs", !.regs = r] : r \in ValueMaps }

InitDecoder ==
    /\ InitState
    /\ calib \in DecoderCalibrations
    /\ limit = [reads |-> 0, cycles |-> 0, history |-> FALSE]
    /\ buffer \in DecoderBuffers
    /\ parsed = << >>

\* data = self._parse(regs)
DecodeRegisters ==
    /\ buffer.kind = "regs"
    /\ parsed = << >>
    /\ parsed' = << _parse(buffer.regs, calib) >>
    /\ UNCHANGED << limit, buffer, scan >>
    /\ UNCHANGED << serverVars, slotVars, identVars, pollVars, cycleVars >>

NextDecoder == DecodeRegisters
SpecDecoder == InitDecoder /\ [][NextDecoder]_vars

\* ------------------------------------------------------------------------
\* One call of _extract_registers_from_payload
\* ------------------------------------------------------------------------
\* The i-th value of a block: both of its bytes vary with i.
ValueAt(i, seed) == (i * 263 + seed * 32768 + 255) % 65536
BlockValues(n, seed) == [i \in 1..n |-> ValueAt(i, seed)]

\* The envelope of a data report: slave(1) + function(1) + byte_count(1) +
\* data.  byte_count is twice the number of values, plus one when a lone
\* data byte follows them (odd); cut bytes are missing at the end of the
\* envelope and extra bytes follow it.
Envelope(function, values, odd, cut, extra) ==
    LET whole == << 1, function, 2 * Len(values) + odd >> \o PackBE16s(values)
                 \o [k \in 1..odd |-> 7]
    IN  Slice(whole, 0, Len(whole) - cut) \o [k \in 1..extra |-> 9]

\* status(1) + sensor_type(2) + three times(12), then the envelope.
PushPayload(envelope) == << 1, 2, 0 >> \o [k \in 1..12 |-> 0] \o envelope

\* Function codes (read holding and read input registers among them),
\* value counts around the thresholds of the start inference, and the
\* ways an envelope is cut short or extended.
PushFunctions == {2, 3, 4, 5, 16}
PushCounts == {0, 1, 2, 39, 40, 45, 49, 50, 55, 89, 90, 100, 127}
PushShapes ==
    { x \in (0..1) \X (0..3) \X (0..2) : x[2] = 0 \/ x[3] = 0 }

PayloadBuffers ==
    { [NoBuffer EXCEPT
          !.kind = "payload",
          !.arg = [function |-> x[1], values |-> BlockValues(x[2], x[3]),
                   odd |-> x[4][1], cut |-> x[4][2], extra |-> x[4][3]],
          !.bytes = PushPayload(Envelope(x[1], BlockValues(x[2], x[3]),
                                         x[4][1], x[4][2], x[4][3]))] :
      x \in PushFunctions \X PushCounts \X (0..1) \X PushShapes }

InitExtract ==
    /\ InitState
    /\ calib \in Calibrations
    /\ limit = [reads |-> 0, cycles |-> 0, history |-> FALSE]
    /\ buffer \in PayloadBuffers
    /\ parsed = << >>

\* regs = _extract_registers_from_payload(payload)
ExtractRegisters ==
    /\ buffer.kind = "payload"
    /\ parsed = << >>
    /\ parsed' = << _extract_registers_from_payload(buffer.bytes) >>
    /\ UNCHANGED << limit, buffer, scan >>
    /\ UNCHANGED << serverVars, slotVars, identVars, pollVars, cycleVars >>

NextExtract == ExtractRegisters
SpecExtract == InitExtract /\ [][NextExtract]_vars

\* ------------------------------------------------------------------------
\* One call of _signed
\* ------------------------------------------------------------------------
\* Every raw 16-bit value.
Raw16Buffers ==
    { [NoBuffer EXCEPT !.kind = "raw16", !.arg = [value |-> v]] :
      v \in 0..(2^16 - 1) }

InitSigned ==
    /\ InitState
    /\ calib \in Calibrations
    /\ limit = [reads |-> 0, cycles |-> 0, history |-> FALSE]
    /\ buffer \in Raw16Buffers
    /\ parsed = << >>

\* val = self._signed(raw)
ConvertSigned ==
    /\ buffer.kind = "raw16"
    /\ parsed = << >>
    /\ parsed' = << _signed(buffer.arg.value) >>
    /\ UNCHANGED << limit, buffer, scan >>
    /\ UNCHANGED << serverVars, slotVars, identVars, pollVars, cycleVars >>

NextSigned == ConvertSigned
SpecSigned == InitSigned /\ [][NextSigned]_vars

\* The coordinator with the server feeding its slot.
Next == ServerNext(PushChunkIds) \/ CoordinatorNext({0}, {DevInfoFull})
Spec == Init /\ [][Next]_vars

\* The server alone, on every kind of input.
NextServer ==
    \/ ServerNext(ChunkIds)
    \/ StopClose
    \/ \E waits \in BOOLEAN : StopWaitClosed(waits)
SpecServer == InitServer /\ [][NextServer]_vars

\* The coordinator alone.
NextPoll ==
    \/ UpdateStartPoll
    \/ \E ok \in BOOLEAN : PollConnect(ok)
    \/ \E ok \in BOOLEAN, seed \in PollSeeds : PollRead(ok, seed)
    \/ PollSleep
    \/ UpdatePollFailed
    \/ UpdatePolled
    \/ \E ok \in BOOLEAN : InfoConnect(ok)
    \/ \E ok \in BOOLEAN, values \in DevInfoResponses : InfoRead(ok, values)
    \/ UpdateFinish
SpecPoll == InitPoll /\ [][NextPoll]_vars

\* The coordinator alone, shut down at any moment: no refresh starts once
\* the shutdown has been requested.
InitShutdown ==
    /\ InitState
    /\ calib \in Calibrations
    /\ limit = [reads |-> 0, cycles |-> MaxPollCycles, history |-> FALSE]
    /\ buffer = NoBuffer
    /\ parsed = << >>

NextShutdown ==
    \/ life.shutdown = "none" /\ UpdateStartPoll
    \/ \E ok \in BOOLEAN : PollConnect(ok)
    \/ \E ok \in BOOLEAN : PollRead(ok, 0)
    \/ PollSleep
    \/ UpdatePollFailed
    \/ UpdatePolled
    \/ \E ok \in BOOLEAN : InfoConnect(ok)
    \/ \E ok \in BOOLEAN : InfoRead(ok, DevInfoFull)
    \/ UpdateFinish
    \/ ShutdownRequest
    \/ ShutdownDisconnect
SpecShutdown == InitShutdown /\ [][NextShutdown]_vars

\* ========================================================================
\* Properties
\* ========================================================================
NoRepeat(s) == \A i, j \in 1..Len(s) : i # j => s[i] # s[j]

\* C1: a pushed register map is consumed by at most one refresh: the
\* refresh that takes a map from the slot leaves the slot empty, so the slot
\* never holds a map a refresh has already decoded, and no pushed map is
\* decoded twice.  (Specification Spec.)
C1_PushedMapConsumedOnce ==
    /\ NoRepeat(consumed)
    /\ \A i \in 1..Len(consumed) : consumed[i] \in 1..pushCount
    /\ IF pushed_registers = << >>
       THEN slotId = 0
       ELSE slotId # 0 /\ \A i \in 1..Len(consumed) : consumed[i] # slotId

\* A refresh has decoded the one map pushed so far and the refresh after it
\* has found the slot empty.
C1_Witness ==
    /\ ncycles = 2
    /\ consumed = << 1 >>
    /\ pushCount = 1
    /\ cycle.polled

FramesOf(bytes) == _parse_v5_frames(bytes).frames

\* The register maps that one single frame of the logger's input yields.
SingleFrameMaps ==
    UNION { { Routed(FramesOf(Chunks[k])[i]) : i \in 1..Len(FramesOf(Chunks[k])) }
            : k \in ChunkIds } \ { EmptyRegs }

\* C3: the map a refresh takes from the slot, and the map the slot holds,
\* is the complete map extracted from one single data-report frame, never
\* a mixture of the maps of two frames.  (Specification Spec.)
C3_TakenMapIsOneFrame ==
    /\ pushed_registers # << >> => pushed_registers[1] \in SingleFrameMaps
    /\ cycle.taken # << >> => cycle.taken[1] \in SingleFrameMaps

\* A refresh has taken the second of two pushed maps, the first having been
\* overwritten unread.
C3_Witness ==
    /\ cycle.slotFull
    /\ pushCount = 2
    /\ consumed = << 2 >>

\* The number of frames of connection c whose processing has started.
Started(c) ==
    IF conn[c].pc = "drain"
    THEN Len(extracted[c]) - Len(conn[c].frames) + conn[c].idx
    ELSE Len(extracted[c])

\* The frame type and serial an acknowledgement carries.
AckTag(ack) ==
    LET r == _parse_v5_frames(ack) IN
    IF r.err \/ Len(r.frames) # 1
    THEN [type |-> -1, serial |-> U32(0, 0)]
    ELSE FrameTag(r.frames[1])

\* C4: for every frame extracted from a connection whose processing has
\* started, the server has written exactly one acknowledgement, carrying
\* that frame's type and serial, and it was written before the frame's
\* register data was delivered.  (Specification SpecServer.)
C4_AckBeforeDelivery ==
    \A c \in Conns :
        /\ Len(acks[c]) = Started(c)
        /\ \A i \in 1..Len(acks[c]) : AckTag(acks[c][i]) = extracted[c][i]
        /\ \A j \in 1..Len(deliveries[c]) :
              deliveries[c][j].n <= deliveries[c][j].acked

\* One read held a heartbeat and a data report: both are acknowledged and
\* the data report, the second frame, has been delivered.
C4_Witness ==
    \E c \in Conns :
        /\ Len(acks[c]) = 2
        /\ Len(deliveries[c]) = 1
        /\ deliveries[c][1].n = 2
        /\ extracted[c][1].type = FRAME_HEARTBEAT

RECURSIVE SumLen(_, _)
SumLen(f, S) ==
    IF S = {} THEN 0
    ELSE LET x == CHOOSE y \in S : TRUE IN Len(f[x]) + SumLen(f, S \ {x})

\* C5: the slot receives a map only from a frame whose serial is the
\* configured one and whose type is a data report; frames of another
\* serial and heartbeat, hello and unknown frames are acknowledged and
\* leave the slot as it was.  (Specification SpecServer.)
C5_OnlyOwnDataReportsRouted ==
    /\ \A c \in Conns :
          /\ \A j \in 1..Len(deliveries[c]) :
                LET t == extracted[c][deliveries[c][j].n] IN
                t.serial = Serial /\ t.type = FRAME_DATA
          /\ \A i \in 1..Started(c) :
                (extracted[c][i].serial # Serial \/ extracted[c][i].type # FRAME_DATA)
                    => AckTag(acks[c][i]) = extracted[c][i]
    /\ pushCount = SumLen(deliveries, Conns)
    /\ pushed_registers = << >> <=> pushCount = 0

\* A connection has received a data report of another logger, a hello and
\* a frame of unknown type: three acknowledgements, and an empty slot.
C5_Witness ==
    \E c \in Conns :
        /\ conn[c].pc = "read"
        /\ Len(rx[c]) = 2
        /\ Chunks[rx[c][1]] = FrameOther
        /\ Chunks[rx[c][2]] = FrameHello \o FrameUnknown
        /\ Len(acks[c]) = 3
        /\ pushed_registers = << >>

\* C6: a frame whose bytes arrive split across two successive reads of a
\* connection is decoded, acknowledged and routed once its last byte has
\* arrived.  (Specification SpecServer.)
C6_SplitFrameDecoded ==
    \A c \in Conns :
        (/\ conn[c].pc = "read"
         /\ Len(rx[c]) >= 2
         /\ Chunks[rx[c][Len(rx[c]) - 1]] \o Chunks[rx[c][Len(rx[c])]] = FrameA)
        => /\ extracted[c] # << >>
           /\ extracted[c][Len(extracted[c])] = FrameTag(FramesOf(FrameA)[1])
           /\ Len(acks[c]) = Len(extracted[c])
           /\ deliveries[c] # << >>
           /\ deliveries[c][Len(deliveries[c])].regs = Routed(FramesOf(FrameA)[1])

\* C7: from a buffer made of one frame with exactly one corrupted byte
\* followed by valid frames, the decoder returns no frame for the corrupted
\* one and every one of the valid frames after it.  (Specification
\* SpecCodec.)
C7_CorruptedFrameSkipped ==
    (buffer.kind = "corrupted" /\ parsed # << >>) =>
        /\ ~parsed[1].err
        /\ parsed[1].frames = FramesOf(Concat(buffer.tail, 1))

\* C8: no bytes received on a connection make the decoder raise or end the
\* handler's receive loop: a step that receives bytes never closes the
\* connection.  (Specification SpecServer.)
C8_NoInputEndsLoop ==
    [][\A c \in Conns : Len(rx'[c]) > Len(rx[c]) => conn'[c].pc # "closed"]_vars

\* C9: one run of _read_registers makes at most three attempts, makes none
\* after the first that succeeded, and raises only when three attempts
\* have failed.  (Specification SpecPoll.)
C9_AtMostThreeAttempts ==
    /\ cycle.attempts <= 3
    /\ cycle.succeeded <= 1
    /\ cycle.attempts = (cycle.failed + cycle.succeeded
                         + IF cpc = "read" THEN 1 ELSE 0)
    /\ cycle.okAttempt # 0 =>
          /\ cycle.succeeded = 1
          /\ cycle.attempts = cycle.okAttempt
          /\ cpc \notin {"connect", "read", "sleep", "raised"}
    /\ (cpc = "raised" \/ cycle.outcome \in {"empty", "UpdateFailed"}) =>
          /\ cycle.attempts = 3
          /\ cycle.failed = 3
          /\ cycle.succeeded = 0

\* The third attempt has failed after two sleeps and the run has raised.
C9_Witness ==
    /\ cpc = "raised"
    /\ cycle.attempts = 3
    /\ cycle.sleeps = 2

\* C10: a refresh whose poll failed returns an empty snapshot when data was
\* still unset, and fails with UpdateFailed, leaving data as it was, when
\* an earlier refresh had produced a snapshot.  (Specification SpecPoll.)
C10_EmptyOnlyBeforeFirstSnapshot ==
    /\ cycle.outcome = "empty" =>
          cycle.dataWasNone /\ cycle.failed = 3 /\ data = << EmptySnapshot >>
    /\ cycle.outcome = "UpdateFailed" =>
          ~cycle.dataWasNone /\ cycle.failed = 3 /\ data # << >>
    /\ (cycle.polled /\ cycle.failed = 3 /\ cpc = "idle") =>
          cycle.outcome = IF cycle.dataWasNone THEN "empty" ELSE "UpdateFailed"

\* The first refresh polled successfully and produced a snapshot; the poll
\* of the second has failed and the refresh ended with UpdateFailed.
C10_Witness ==
    /\ ncycles = 2
    /\ cycle.outcome = "UpdateFailed"
    /\ data # << >>
    /\ data # << EmptySnapshot >>

\* C11: when _read_registers has returned, with a register map or with an
\* error, the connection it opened has been disconnected: no outbound
\* connection is open.  (Specification SpecPoll.)
C11_DisconnectedOnReturn ==
    cpc \in {"returned", "raised"} => client = 0 /\ open = {}

\* The buffer is one well-formed frame: start marker, length field equal
\* to 9 + payload size, checksum over all bytes but the last two, end
\* marker.
WellFormed(b) ==
    /\ Len(b) >= 14
    /\ At(b, 0) = V5_START
    /\ At(b, 1) + 256 * At(b, 2) = 9 + (Len(b) - 14)
    /\ At(b, Len(b) - 2) = SumBytes(b, Len(b) - 2) % 256
    /\ At(b, Len(b) - 1) = V5_END

\* C12: from a buffer holding one well-formed frame alone, the decoder
\* returns exactly one frame: its serial is the little-endian 32-bit value
\* at offset 7, its type the byte at offset 11, its payload the bytes from
\* offset 12 up to the checksum byte.  (Specification SpecCodec.)
C12_WellFormedFrameDecoded ==
    (buffer.kind = "single" /\ WellFormed(buffer.bytes) /\ parsed # << >>) =>
        LET b == buffer.bytes
            f == parsed[1].frames
        IN  /\ ~parsed[1].err
            /\ Len(f) = 1
            /\ f[1].serial = U32(At(b, 9) + 256 * At(b, 10),
                                 At(b, 7) + 256 * At(b, 8))
            /\ f[1].serial = buffer.arg.serial
            /\ f[1].type = At(b, 11)
            /\ f[1].type = buffer.arg.type
            /\ f[1].payload = [k \in 1..(Len(b) - 14) |-> At(b, 11 + k)]
            /\ f[1].payload = buffer.arg.payload

\* A frame whose type is the start byte, whose serial is made of start and
\* end bytes and whose payload is itself a whole frame has been decoded.
C12_Witness ==
    /\ buffer.kind = "single"
    /\ WellFormed(buffer.bytes)
    /\ buffer.arg.type = V5_START
    /\ buffer.arg.serial = U32(42405, 5541)
    /\ buffer.arg.payload = FrameHeartbeat
    /\ parsed # << >>
    /\ Len(parsed[1].frames) = 1

\* C13: the bytes _build_v5_ack returns decode as exactly one frame with
\* the serial and type it was given; they carry length field 11, control
\* code 0x1010, the sequence number, and a checksum equal to the sum of
\* the first 14 bytes modulo 256.  (Specification SpecCodec.)
C13_AckRoundTrip ==
    (buffer.kind = "ack" /\ buffer.bytes # << >>) =>
        LET b == buffer.bytes IN
        /\ Len(b) = 16
        /\ At(b, 0) = V5_START
        /\ At(b, 1) + 256 * At(b, 2) = 11
        /\ At(b, 3) + 256 * At(b, 4) = 4112
        /\ At(b, 5) + 256 * At(b, 6) = buffer.arg.sequence
        /\ At(b, 14) = SumBytes(b, 14) % 256
        /\ At(b, 15) = V5_END
        /\ parsed # << >> =>
              /\ ~parsed[1].err
              /\ Len(parsed[1].frames) = 1
              /\ parsed[1].frames[1].serial = buffer.arg.serial
              /\ parsed[1].frames[1].type = buffer.arg.type

\* The acknowledgement of a frame whose type, serial and sequence number
\* all hold start bytes has been built and decoded.
C13_Witness ==
    /\ buffer.kind = "ack"
    /\ buffer.arg.type = V5_START
    /\ buffer.arg.serial = U32(42405, 5541)
    /\ buffer.arg.sequence = 5541
    /\ parsed # << >>
    /\ Len(parsed[1].frames) = 1

\* While the server listens, a new connection is accepted, and a handler
\* waiting for its acknowledgement to drain goes on with its frames.
Serving ==
    /\ server = "listening" =>
          \A c \in Conns :
              (conn[c].pc = "free" /\ \A b \in Conns : b < c => conn[b].pc # "free")
                  => ENABLED Accept(c)
    /\ \A c \in Conns : conn[c].pc = "drain" => ENABLED HandleDrain(c, TRUE)

\* C14: the end of one connection (peer close, idle timeout, reset, or an
\* error raised inside its loop) closes that connection only: the step
\* leaves the listening socket and every other connection as they were,
\* and the server goes on accepting and serving.  (Specification
\* SpecServer.)
C14_OnlyThatConnectionEnds ==
    /\ []Serving
    /\ [][\A c \in Conns :
             (conn[c].pc \in {"read", "drain"} /\ conn'[c].pc = "closed")
                 => /\ server' = server
                    /\ \A b \in Conns \ {c} : conn'[b] = conn[b]]_vars

\* A connection has been closed by an error raised in its loop while the
\* server listens and another connection, opened later, has been served.
C14_Witness ==
    \E c, b \in Conns :
        /\ c < b
        /\ conn[c].pc = "closed"
        /\ rx[c] # << >>
        /\ Chunks[rx[c][Len(rx[c])]] = FrameShort
        /\ conn[b].pc = "read"
        /\ acks[b] # << >>
        /\ server = "listening"

\* C15: once stop has completed, the listening socket is closed and every
\* connection that was open has been closed, so that no handler is left to
\* acknowledge or route a frame.  (Specification SpecServer.)
C15_StopClosesConnections ==
    server = "stopped" => \A c \in Conns : conn[c].pc \notin {"read", "drain"}

\* C16: over the lifetime of a coordinator _read_device_info runs at most
\* once and issues at most one identification read; once it has returned,
\* with or without a result, the latch is set and stays set, and no later
\* refresh starts the read again.  (Specification SpecPoll.)
C16_IdentificationReadOnce ==
    /\ life.infoRuns <= 1
    /\ life.infoReads <= life.infoRuns
    /\ device_info_read <=> (life.infoRuns = 1 /\ cpc # "info_read")
    /\ device_info_read => cpc \notin {"info_connect", "info_read"}

\* The identification read failed in the first refresh, and a second
\* refresh has polled and decoded a map without running it again.
C16_Witness ==
    /\ ncycles = 2
    /\ cpc = "idle"
    /\ cycle.outcome = "snapshot"
    /\ life.infoCycle = 1
    /\ life.infoFailed
    /\ life.infoReads = 1

\* C17: the identification read is issued in the first refresh that
\* obtains and decodes a register map, from a push or from a poll, and in
\* no other: between refreshes, the refresh the read ran in is the first
\* successful one.  (Specification Spec.)
C17_IdentificationInFirstSuccessfulCycle ==
    cpc = "idle" => life.infoCycle = life.firstOk

\* C18: a failure of the identification read leaves device type and
\* firmware version as they were before it, and the refresh it happened in
\* still returns the snapshot decoded from the registers it polled.
\* (Specification SpecPoll.)
C18_IdentificationFailureIsSilent ==
    life.infoFailed =>
        /\ device_type = "Hybrid Inverter"
        /\ firmware_version = ""
        /\ (cpc = "idle" /\ life.infoCycle = ncycles) =>
              /\ cycle.outcome = "snapshot"
              /\ cycle.returned # << >>
              /\ cycle.decoded = cycle.returned
              /\ data = << _parse(cycle.returned[1], calib).data >>
              /\ data # << EmptySnapshot >>

\* The identification read raised after its connection was made, and the
\* refresh has ended with the snapshot of the polled registers.
C18_Witness ==
    /\ life.infoFailed
    /\ life.infoReads = 1
    /\ life.infoCycle = ncycles
    /\ cpc = "idle"
    /\ cycle.outcome = "snapshot"

\* The register addresses a snapshot key is computed from.
TableRegs(name) ==
    {SingleGroups[i].reg : i \in {j \in 1..Len(SingleGroups) :
        SingleGroups[j].named /\ SingleGroups[j].name = name}}
    \cup {REGISTERS_BATTERY[i].reg : i \in {j \in 1..Len(REGISTERS_BATTERY) :
        REGISTERS_BATTERY[j].named /\ REGISTERS_BATTERY[j].name = name}}
    \cup UNION {{REGISTERS_ENERGY_TOTAL[i].low, REGISTERS_ENERGY_TOTAL[i].high} :
        i \in {j \in 1..Len(REGISTERS_ENERGY_TOTAL) :
                  REGISTERS_ENERGY_TOTAL[j].name = name}}
RequiredBy(name) ==
    IF name = "Daily CO2 Saved" THEN TableRegs("Daily PV Energy")
    ELSE IF name = "Total CO2 Saved" THEN TableRegs("Total PV Energy")
    ELSE IF name \in {"Battery Cycles", "Battery Health"}
    THEN TableRegs("Total Battery Discharge Energy")
    ELSE TableRegs(name)

C20_DerivedMetricNeverFatal ==
    (buffer.kind = "regs" /\ parsed # << >>) => parsed[1].ok

\* C21: from a payload whose envelope has function code 3 or 4 and a
\* complete data section, the values extracted are the values of the data
\* section in order, numbered from 59 when there are 50 or more or fewer
\* than 40 of them and from 150 when there are 40 to 49: 55 values start
\* at 59 and 45 values at 150.  (Specification SpecExtract.)
C21_StartInferredFromCount ==
    (/\ buffer.kind = "payload"
     /\ parsed # << >>
     /\ buffer.arg.function \in {3, 4}
     /\ buffer.arg.cut = 0) =>
        LET values == buffer.arg.values
            n == Len(values)
            first == IF n >= 50 \/ n < 40 THEN 59 ELSE 150
        IN  /\ DOMAIN parsed[1] = first..(first + n - 1)
            /\ \A i \in 1..n : parsed[1][first + i - 1] = values[i]
            /\ n = 55 => first = 59
            /\ n = 45 => first = 150

\* A read-holding-registers response of 45 values, with a checksum after
\* its data section, has been extracted into registers 150 to 194.
C21_Witness ==
    /\ buffer.kind = "payload"
    /\ buffer.arg.function = 3
    /\ Len(buffer.arg.values) = 45
    /\ buffer.arg.extra = 2
    /\ parsed # << >>
    /\ DOMAIN parsed[1] = 150..194

\* C22: for every raw value v of 16 bits the signed conversion returns the
\* number of -32768..32767 that is congruent to v modulo 65536: v itself
\* below 32768 and v - 65536 from 32768 on, so that 32768 gives -32768 and
\* 65535 gives -1.  (Specification SpecSigned.)
C22_SignedConversion ==
    (buffer.kind = "raw16" /\ parsed # << >>) =>
        LET v == buffer.arg.value
            s == parsed[1]
        IN  /\ s \in (-32768)..32767
            /\ (s - v) % 65536 = 0
            /\ v < 32768 => s = v
            /\ v >= 32768 => s = v - 65536
            /\ v = 32768 => s = -32768
            /\ v = 65535 => s = -1

\* The smallest raw value of the negative half has been converted.
C22_Witness ==
    /\ buffer.kind = "raw16"
    /\ buffer.arg.value = 32768
    /\ parsed = << -32768 >>

C24_BatteryHealthInRange ==
    (buffer.kind = "regs" /\ parsed # << >>) =>
        IF {74, 75} \subseteq DOMAIN buffer.regs /\ calib.capacity > 0
        THEN /\ parsed[1].ok
             /\ {"Battery Cycles", "Battery Health"} \subseteq DOMAIN parsed[1].data
             /\ LET cycles == parsed[1].data["Battery Cycles"]
                     health == parsed[1].data["Battery Health"]
                 IN  /\ health.kind = "num" /\ health.p = 1
                     /\ health.m >= 0
                     /\ health.m <= 1000
                     /\ cycles.m >= 10 * calib.rated => health.m = 0
        ELSE parsed[1].ok =>
                 /\ "Battery Cycles" \notin DOMAIN parsed[1].data
                 /\ "Battery Health" \notin DOMAIN parsed[1].data

BlockRange(b) == b.start..(b.start + Len(b.values) - 1)

\* C26: after an attempt has failed with blocks already read, the next
\* attempt reads from the first block of the plan on a connection of its
\* own, and every value of the map _read_registers returns was read by the
\* attempt that succeeded: nothing a failed attempt has read is in it.
\* (Specification SpecPoll.)
C26_RetryStartsAfresh ==
    /\ \A i \in 1..Len(cycle.blocks) :
          /\ cycle.blocks[i].start = READ_BLOCKS[i][1]
          /\ \A j \in 1..Len(cycle.lost) :
                /\ cycle.lost[j].conn # cycle.blocks[i].conn
                /\ cycle.lost[j].attempt < cycle.blocks[i].attempt
    /\ cpc = "read" => blk = Len(cycle.blocks) + 1
    /\ cycle.returned # << >> =>
          /\ \A i \in 1..Len(cycle.blocks) :
                cycle.blocks[i].attempt = cycle.okAttempt
          /\ \A a \in DOMAIN cycle.returned[1] :
                \E i \in 1..Len(cycle.blocks) :
                    /\ a \in BlockRange(cycle.blocks[i])
                    /\ cycle.returned[1][a] =
                          cycle.blocks[i].values[a - cycle.blocks[i].start + 1]

\* An attempt read the whole first block and failed on the second; the
\* next attempt got a first block one value short and succeeded: the last
\* address of the first block is not in the map returned.
C26_Witness ==
    /\ cycle.returned # << >>
    /\ Len(cycle.lost) = 1
    /\ cycle.lost[1].start = 59
    /\ Len(cycle.lost[1].values) = 55
    /\ Len(cycle.blocks[1].values) = 54
    /\ 113 \notin DOMAIN cycle.returned[1]
    /\ 112 \in DOMAIN cycle.returned[1]

\* The waits of a run of _read_registers follow its failures: one after
\* each failed attempt that another attempt follows, none after the third.
WaitsFollowFailures ==
    /\ cycle.sleeps <= 2
    /\ cpc = "sleep" =>
          /\ client = 0
          /\ attempt < 3
          /\ cycle.failed = attempt
          /\ cycle.sleeps = cycle.failed - 1
    /\ cpc \in {"connect", "read"} =>
          /\ cycle.failed = attempt - 1
          /\ cycle.sleeps = cycle.failed
    /\ cpc = "raised" =>
          /\ client = 0
          /\ cycle.failed = 3
          /\ cycle.sleeps = 2
    /\ cpc # "sleep" =>
          cycle.sleeps = IF cycle.failed = 3 THEN 2 ELSE cycle.failed

\* A step that counts a failure disconnects and does not wait; a step
\* that counts a wait is the wait of a disconnected run, and leads to the
\* next connect.
FailureStep ==
    /\ cycle'.failed > cycle.failed =>
          /\ client' = 0
          /\ (client # 0 => client \notin open')
          /\ cycle'.sleeps = cycle.sleeps
          /\ cpc' = IF cycle'.failed < 3 THEN "sleep" ELSE "raised"
    /\ cycle'.sleeps > cycle.sleeps =>
          /\ cpc = "sleep"
          /\ cpc' = "connect"
          /\ client = 0
          /\ client' = 0
          /\ cycle'.sleeps = cycle.sleeps + 1

\* C27: in one run of _read_registers a failed attempt is followed by the
\* disconnect, in the step of the failure itself and before any wait, and
\* then by one wait if and only if another attempt follows; the next
\* attempt connects only after that wait; the third failure is followed
\* by no wait, so that a run waits at most twice.  (Specification
\* SpecPoll.)
C27_DisconnectThenBackoff == []WaitsFollowFailures /\ [][FailureStep]_vars

\* The third attempt has failed while reading: the run has waited twice,
\* has disconnected, and raises without a third wait.
C27_Witness ==
    /\ cpc = "raised"
    /\ cycle.failed = 3
    /\ cycle.sleeps = 2
    /\ Len(cycle.lost) = 3
    /\ client = 0

\* C29: an attempt issues the requests of the read plan in its order,
\* (59, 55) then (150, 45), all on the one connection it made; the map
\* _read_registers returns holds, for each block, the i-th value of the
\* response at address start + i, and when both responses are full its
\* addresses are exactly 59..113 and 150..194.  (Specification SpecPoll.)
C29_BlocksReadInOrder ==
    /\ Len(cycle.blocks) <= 2
    /\ \A i \in 1..Len(cycle.blocks) :
          /\ (i = 1 => cycle.blocks[i].start = 59 /\ cycle.blocks[i].count = 55)
          /\ (i = 2 => cycle.blocks[i].start = 150 /\ cycle.blocks[i].count = 45)
          /\ cycle.blocks[i].conn = cycle.blocks[1].conn
          /\ cycle.blocks[i].conn = cycle.conns
    /\ cycle.returned # << >> =>
          /\ Len(cycle.blocks) = 2
          /\ \A i \in 1..2 : \A k \in 1..Len(cycle.blocks[i].values) :
                /\ cycle.blocks[i].start + k - 1 \in DOMAIN cycle.returned[1]
                /\ cycle.returned[1][cycle.blocks[i].start + k - 1] =
                      cycle.blocks[i].values[k]
          /\ (\A i \in 1..2 :
                 Len(cycle.blocks[i].values) = cycle.blocks[i].count)
             => DOMAIN cycle.returned[1] = (59..113) \cup (150..194)

\* The first attempt of a refresh has read both blocks in full on its
\* connection and the map has been returned.
C29_Witness ==
    /\ cycle.returned # << >>
    /\ cycle.okAttempt = 1
    /\ cycle.conns = 1
    /\ Len(cycle.blocks) = 2
    /\ Len(cycle.blocks[1].values) = 55
    /\ Len(cycle.blocks[2].values) = 45
    /\ DOMAIN cycle.returned[1] = (59..113) \cup (150..194)

\* The envelope of a data-report payload: what follows its 15-byte prefix.
EnvelopeOf(payload) == Slice(payload, 15, Len(payload))

\* C30: for a payload whose envelope carries a function code that is
\* neither 3 nor 4, the whole envelope, its first three bytes included, is
\* read as big-endian 16-bit values numbered from register 0, and a
\* trailing odd byte is dropped.  (Specification SpecExtract.)
C30_RawDumpFromRegisterZero ==
    (/\ buffer.kind = "payload"
     /\ parsed # << >>
     /\ Len(EnvelopeOf(buffer.bytes)) >= 2
     /\ EnvelopeOf(buffer.bytes)[2] \notin {3, 4})
    => LET env == EnvelopeOf(buffer.bytes)
       IN  parsed[1] = [i \in 0..(Len(env) \div 2 - 1) |->
                           256 * env[2 * i + 1] + env[2 * i + 2]]

\* Every frame whose drain has been awaited has been processed, whatever
\* the drain gave: a data report of the configured serial has been handed
\* over, and no frame extracted from a read is left unprocessed when the
\* handler is back at reader.read.
ProcessedWhateverTheAck ==
    \A c \in Conns :
        /\ Len(drains[c]) =
              IF conn[c].pc = "drain" THEN Started(c) - 1 ELSE Len(extracted[c])
        /\ \A i \in 1..Len(drains[c]) :
              (extracted[c][i].type = FRAME_DATA /\ extracted[c][i].serial = Serial)
                  <=> \E j \in 1..Len(deliveries[c]) : deliveries[c][j].n = i

\* The step that ends the wait for a drain leaves the handler in its loop.
DrainStep ==
    \A c \in Conns :
        Len(drains'[c]) > Len(drains[c]) =>
            /\ conn'[c].pc \in {"read", "drain"}
            /\ server' = server

\* C28: a failure to write the acknowledgement of a frame does not end the
\* handler's loop and does not keep the frame from being processed: a data
\* report with the configured serial is delivered all the same, and the
\* frames after it in the same read are processed.  (Specification
\* SpecServer.)
C28_AckFailureNotFatal == []ProcessedWhateverTheAck /\ [][DrainStep]_vars

\* One read held a heartbeat and a data report and the acknowledgement of
\* neither could be written: the data report has been delivered and the
\* handler is reading again.
C28_Witness ==
    \E c \in Conns :
        /\ conn[c].pc = "read"
        /\ rx[c] # << >>
        /\ Chunks[rx[c][1]] = FrameHeartbeat \o FrameB
        /\ Len(drains[c]) >= 2
        /\ ~drains[c][1]
        /\ ~drains[c][2]
        /\ Len(deliveries[c]) >= 1
        /\ deliveries[c][1].n = 2
        /\ deliveries[c][1].regs = Routed(FramesOf(FrameB)[1])

\* The envelope cannot be read as a read response: its function code is
\* not one of the two read functions, or its data section is shorter than
\* the byte count it declares.
NotAReadResponse(env) ==
    \/ env[2] \notin {3, 4}
    \/ Len(env) - 3 < env[3]

\* C31: a data-report payload that cannot be read as a read response is
\* handed to the raw-dump fallback: what the extraction gives, and so what
\* the handler delivers when it is not empty, is what
\* _try_raw_register_parse gives for the envelope.  (Specification
\* SpecExtract.)
C31_UnparseableFallsBack ==
    (/\ buffer.kind = "payload"
     /\ parsed # << >>
     /\ Len(EnvelopeOf(buffer.bytes)) >= 3
     /\ NotAReadResponse(EnvelopeOf(buffer.bytes)))
    => parsed[1] = _try_raw_register_parse(EnvelopeOf(buffer.bytes))

\* C32: the disconnect of async_shutdown, when it runs while an attempt of
\* _read_registers is between connecting and its last block read, leaves
\* the client and the connection of that attempt as they are.
\* (Specification SpecShutdown.)
C32_ShutdownSparesAttempt ==
    [][(cpc = "read" /\ life.shutdown = "requested" /\ life'.shutdown = "done")
         => (client' = client /\ open' = open)]_vars

\* C33: with the passive server started (push mode), no refresh hands
\* _read_registers to the executor: no refresh is marked as polled, none
\* is at a step of the polling client, and no attempt is counted, also
\* when the slot was empty at the start of the refresh.  (Specification
\* Spec.)
C33_NoPollingInPushMode ==
    server = "listening" =>
        /\ ~cycle.polled
        /\ cycle.attempts = 0
        /\ cpc \notin {"connect", "read", "sleep", "returned", "raised"}

\* C34: at most one outbound connection of the coordinator is open at any
\* moment, whether it was opened by an attempt of _read_registers or by
\* _read_device_info, and whether or not the identification read failed.
\* (Specification SpecPoll.)
C34_AtMostOneOutbound == Cardinality(open) <= 1

\* What a polling refresh decodes is the map _read_registers returned.
PollResultIsPolled ==
    /\ cycle.source = "poll" => cycle.decoded = cycle.returned
    /\ (cycle.source = "poll" /\ cycle.outcome = "snapshot" /\ cpc = "idle")
          => data = << _parse(cycle.returned[1], calib).data >>

\* While a polling refresh is under way, its last step included, the slot
\* changes only by a delivery of the server; a refresh that starts with a
\* map in the slot decodes that map and empties the slot.
SlotStep ==
    /\ (cycle.polled /\ cpc # "idle" /\ pushed_registers' # pushed_registers)
          => (pushCount' = pushCount + 1 /\ pushed_registers' # << >>)
    /\ (cycle.polled /\ cpc # "idle") => consumed' = consumed
    /\ (cpc = "idle" /\ ncycles' > ncycles /\ pushed_registers # << >>)
          => /\ cycle'.source = "push"
             /\ cycle'.decoded = pushed_registers
             /\ consumed' = Append(consumed, slotId)
             /\ pushed_registers' = << >>

\* C35: a pushed map that arrives while a polling refresh is under way is
\* not what that refresh decodes and does not change its snapshot; the
\* refresh, whether it ends with a snapshot or a failure, leaves the map
\* in the slot, and the next refresh that starts takes and decodes it.
\* (Specification Spec.)
C35_ArrivalDuringPollKept == []PollResultIsPolled /\ [][SlotStep]_vars

\* A refresh started with an empty slot, _read_registers has returned its
\* map, and a data report delivered in the meantime is in the slot.
C35_Witness ==
    /\ cpc = "returned"
    /\ ~cycle.slotFull
    /\ cycle.returned # << >>
    /\ pushed_registers # << >>
    /\ pushed_registers # cycle.returned
    /\ consumed = << >>

\* The step in which the handler of connection c hands a map to on_data
\* leaves exactly that map in the slot, whatever the slot held.
DeliveryStep ==
    \A c \in Conns :
        (/\ conn[c].pc = "drain"
         /\ conn'[c] # conn[c]
         /\ Routed(conn[c].frames[conn[c].idx]) # EmptyRegs)
        => /\ pushed_registers' = << Routed(conn[c].frames[conn[c].idx]) >>
           /\ pushCount' = pushCount + 1
           /\ slotId' = pushCount'

\* The refresh that starts with a map in the slot decodes that map: its
\* snapshot is the decoding of it.
TakeStep ==
    (cpc = "idle" /\ ncycles' > ncycles /\ pushed_registers # << >>)
    => /\ cycle'.taken = pushed_registers
       /\ cycle'.decoded = pushed_registers
       /\ _parse(pushed_registers[1], calib).ok
             => data' = << _parse(pushed_registers[1], calib).data >>

\* C36: the slot holds the map of the most recent delivery only: every
\* delivery replaces what the slot held, and the next refresh decodes
\* exactly the map of the last delivery before it, so that the maps
\* delivered earlier are dropped whole.  (Specification Spec.)
C36_LatestDeliveryWins ==
    /\ [](pushed_registers # << >> => slotId = pushCount)
    /\ [][DeliveryStep /\ TakeStep]_vars

\* Two different data reports were delivered before the first refresh,
\* which has decoded the map of the second.
C36_Witness ==
    /\ ncycles = 1
    /\ pushCount = 2
    /\ consumed = << 2 >>
    /\ cycle.source = "push"
    /\ cycle.decoded = << Routed(FramesOf(FrameB)[1]) >>
    /\ Routed(FramesOf(FrameA)[1]) # Routed(FramesOf(FrameB)[1])
    /\ data # << >>
    /\ pushed_registers = << >>

\* Frame f is what the bytes at offset start of b hold when they are
\* read as a frame whose length field is at least 9.
FrameAt(b, start, f) ==
    /\ At(b, start) = V5_START
    /\ LET length == UnpackLE16(b, start + 1) IN
       /\ length >= 9
       /\ start + 1 + 2 + length + 1 + 1 <= Len(b)
       /\ Len(f.payload) = length - 9
       /\ f.payload = Slice(b, start + HEADER_SIZE, start + 3 + length)
       /\ f.type = At(b, start + 11)
       /\ f.serial = UnpackLE32(b, start + 7)

\* C37: every frame _parse_v5_frames returns is a candidate of the buffer
\* whose length field is at least 9, with a payload of exactly length - 9
\* bytes; a candidate with a smaller length field is not returned, also
\* when its checksum and end marker are right.  (Specification SpecCodec.)
C37_LengthFieldAtLeastNine ==
    (buffer.kind \in {"corrupted", "single", "short"} /\ parsed # << >>) =>
        \A i \in 1..Len(parsed[1].frames) :
            \E start \in 0..(Len(buffer.bytes) - MIN_FRAME_SIZE) :
                FrameAt(buffer.bytes, start, parsed[1].frames[i])

\* C38: the sequence field (bytes 5 and 6) of every acknowledgement the
\* server writes is 0, whatever the sequence number of the frame it
\* acknowledges.  (Specification SpecServer.)
C38_AckSequenceZero ==
    \A c \in Conns : \A i \in 1..Len(acks[c]) :
        /\ Len(acks[c][i]) = 16
        /\ UnpackLE16(acks[c][i], 5) = 0

\* Two data reports with the sequence numbers 1 and 2 have been read from
\* a connection and acknowledged.
C38_Witness ==
    \E c \in Conns :
        /\ Len(rx[c]) = 2
        /\ Chunks[rx[c][1]] = FrameA
        /\ Chunks[rx[c][2]] = FrameB
        /\ UnpackLE16(FrameA, 5) = 1
        /\ UnpackLE16(FrameB, 5) = 2
        /\ Len(acks[c]) = 2
        /\ AckTag(acks[c][2]) = FrameTag(FramesOf(FrameB)[1])

\* C39: no register address feeds two values of a snapshot that are read
\* from the register tables: for any two such keys of a decoded snapshot,
\* the addresses of the one (the address of a single-register sensor, the
\* low and high addresses of a 32-bit total) are all different from the
\* addresses of the other.  (Specification SpecDecoder.)
C39_NoRegisterFeedsTwo ==
    (buffer.kind = "regs" /\ parsed # << >> /\ parsed[1].ok) =>
        \A k1, k2 \in DOMAIN parsed[1].data :
            (k1 # k2 /\ TableRegs(k1) # {} /\ TableRegs(k2) # {})
                => TableRegs(k1) \cap TableRegs(k2) = {}

\* An iteration of the scan loop ends the function, leaving position and
\* frames as they are, or goes on at a greater position: one byte past
\* the start byte of a candidate it has rejected, or past the last byte
\* of a frame it has appended to the list.
ScanAdvances ==
    (scan.pc = "loop" /\ scan' # scan) =>
        \/ /\ scan'.pc \in {"returned", "raised"}
           /\ scan'.pos = scan.pos
           /\ scan'.frames = scan.frames
        \/ /\ scan'.pc = "loop"
           /\ scan'.pos > scan.pos
           /\ scan'.pos <= Len(buffer.bytes)
           /\ \/ /\ scan'.frames = scan.frames
                 /\ At(buffer.bytes, scan'.pos - 1) = V5_START
                 /\ \A k \in scan.pos..(scan'.pos - 2) :
                        At(buffer.bytes, k) # V5_START
              \/ /\ Len(scan'.frames) = Len(scan.frames) + 1
                 /\ scan'.starts = Append(scan.starts, Find(buffer.bytes, scan.pos))
                 /\ scan'.pos = scan'.starts[Len(scan'.starts)] + 5
                       + UnpackLE16(buffer.bytes, scan'.starts[Len(scan'.starts)] + 1)

\* The frames of the list are in the order of their places in the buffer,
\* none overlapping the next, all before the scan position; the list the
\* function returns is the one the decoder gives for the buffer.
ScanInOrder ==
    /\ Len(scan.starts) = Len(scan.frames)
    /\ \A i \in 1..Len(scan.starts) :
          /\ scan.frames[i].type = At(buffer.bytes, scan.starts[i] + 11)
          /\ scan.frames[i].serial = UnpackLE32(buffer.bytes, scan.starts[i] + 7)
          /\ scan.starts[i] + 5 + UnpackLE16(buffer.bytes, scan.starts[i] + 1)
                <= (IF i < Len(scan.starts) THEN scan.starts[i + 1] ELSE scan.pos)
    /\ scan.pc = "returned" =>
          /\ ~_parse_v5_frames(buffer.bytes).err
          /\ scan.frames = _parse_v5_frames(buffer.bytes).frames
    /\ scan.pc = "raised" => _parse_v5_frames(buffer.bytes).err

\* C40: _parse_v5_frames ends on every buffer: each iteration of its loop
\* ends the function or moves the scan position forward (one byte past a
\* rejected candidate, past the frame after an accepted one), and the
\* frames are listed in the order of their places in the buffer.
\* (Specification SpecScan.)
C40_ScanTerminates ==
    /\ [][ScanAdvances]_vars
    /\ []ScanInOrder
    /\ (scan.pc = "loop") ~> (scan.pc \in {"returned", "raised"})

\* The scan has rejected the corrupted frame at the head of the buffer and
\* returned the two frames behind it, in their order.
C40_Witness ==
    /\ scan.pc = "returned"
    /\ buffer.kind = "corrupted"
    /\ Len(buffer.tail) = 2
    /\ Len(scan.frames) = 2
    /\ scan.starts[1] = Len(buffer.head)
    /\ scan.starts[2] > scan.starts[1]
    /\ scan.frames[1].type = FRAME_HELLO
    /\ scan.pos = Len(buffer.bytes)
====
